---- MODULE Spec2Model ----
(***************************************************************************)
(* Verification model of ddi.py (dd-interface): the operation monitor      *)
(* run_dd_with_progress with its two renderers, the block-map cell         *)
(* mapping, the final-warning gate, the menu dialog and the text-input     *)
(* dialog.                                                                 *)
(*                                                                         *)
(* Abstractions, stated once:                                              *)
(*  - Python floats are modelled as exact rationals: a percentage is a     *)
(*    pair <<num, den>> (den > 0), and int(x) of a non-negative rational   *)
(*    is the integer quotient.  Rounding of IEEE doubles is not modelled.  *)
(*  - A diagnostic line is the record of what the two regular expressions  *)
(*    and the "No space left on device" test see in it.                    *)
(*  - Wall-clock values (elapsed time, speed, ETA) are not modelled.       *)
(*  - curses calls are modelled by the content they leave in a window.     *)
(*  - The terminal is a concurrent writer of key codes: a non-blocking      *)
(*    getch() sees only the codes that have arrived.                       *)
(***************************************************************************)
EXTENDS Integers, Sequences, FiniteSets, TLC

\* ------------------------------------------------------------------ bounds
\* Number of diagnostic lines the child writes in one run.
MaxLines == 3
\* Largest byte count a progress line reports.
MaxBytes == 2
\* Largest block-map grid (columns, rows).
MaxMapWidth == 2
MaxMapHeight == 2

VARIABLES
    pc,                 \* position of the monitor / of the dialog under study
    child,              \* "running" | "exited"  (process.poll() is None or not)
    returncode,         \* process.returncode, -1 while the child runs (None)
    pipe,               \* lines written by the child, not yet read
    stderr_lines,       \* lines collected by the monitor
    total_size_bytes,
    current_mode,       \* "progress" | "blockmap"
    first_draw,
    last_bytes_copied,
    last_percentage,
    error_ranges,       \* sequence of <<start_byte, end_byte>>
    last_error_position,
    prog_win,           \* _draw_progress_bar.prog_win
    block_win,          \* _draw_block_map.block_win
    map_width,          \* _draw_block_map.map_width
    map_height,         \* _draw_block_map.map_height
    samples,            \* renderer calls made so far, in order
    operation_succeeded,
    typed,              \* show_final_warning: bytes typed into getstr()
    user_input,         \* show_final_warning: user_input
    warn_return,        \* show_final_warning: <<>> or <<value returned>>
    menu_items,         \* get_menu_choice: len(menu_items)
    current_row,
    log_focused,
    menu_return,        \* get_menu_choice: <<>> or <<value returned>>
    menu_key,           \* get_menu_choice: key, the last value of getch()
    menu_mouse,         \* get_menu_choice: the last result of getmouse()
    default_value,      \* get_input_string: default_value
    input_str,          \* get_input_string: input_str, as character codes
    cursor_pos,         \* get_input_string: cursor_pos
    input_return,       \* get_input_string: <<>> or <<value returned>>
    inq,                \* terminal input received and not yet read by getch()
    term_out,           \* rest of the escape sequence the terminal is sending
    log_messages,       \* CursesHandler: len(log_messages)
    scroll_pos,         \* CursesHandler.scroll_pos
    log_view,           \* the message shown in each row of the log pane
                        \* (0: blank), followed in SpecLog
    flow,               \* the operation flow being run, "none" outside one
    flow_step,          \* the flow's position: index of its next dialog
    flow_answer,        \* what the flow's last dialog or check returned
    launched,           \* calls of run_dd_with_progress made by the flow
    run_results,        \* what those calls returned, in order
    use_extended,       \* show_smartctl_output: use_extended
    formatted_lines,    \* show_smartctl_output: the lines on display
    smart_scroll_pos,   \* show_smartctl_output: scroll_pos
    max_scroll,         \* show_smartctl_output: max_scroll
    visible_lines,      \* show_smartctl_output: visible_lines
    current_path,       \* ssh_browse_directory: the names from '/' down
    filter_dirs_only,   \* ssh_browse_directory: filter_dirs_only
    remote,             \* what ssh_list_directory finds at each depth
    browse_return       \* ssh_browse_directory: <<>> or <<value returned>>

vars == <<pc, child, returncode, pipe, stderr_lines, total_size_bytes,
          current_mode, first_draw, last_bytes_copied, last_percentage,
          error_ranges, last_error_position, prog_win, block_win,
          map_width, map_height, samples, operation_succeeded,
          typed, user_input, warn_return, menu_items, current_row,
          log_focused, menu_return, menu_key, menu_mouse, log_messages,
          scroll_pos, log_view, default_value, input_str, cursor_pos, input_return,
          inq, term_out, flow, flow_step, flow_answer, launched,
          run_results, use_extended, formatted_lines, smart_scroll_pos,
          max_scroll, visible_lines, current_path, filter_dirs_only, remote,
          browse_return>>

monitorVars == <<child, returncode, pipe, stderr_lines, total_size_bytes,
                 current_mode, first_draw, last_bytes_copied, last_percentage,
                 error_ranges, last_error_position, prog_win, block_win,
                 map_width, map_height, samples, operation_succeeded>>
warnVars == <<typed, user_input, warn_return>>
menuVars == <<menu_items, current_row, log_focused, menu_return, menu_key,
              menu_mouse>>
logVars == <<log_messages, scroll_pos, log_view>>
inputVars == <<default_value, input_str, cursor_pos, input_return, inq,
               term_out>>
flowVars == <<flow, flow_step, flow_answer, launched, run_results>>
smartVars == <<use_extended, formatted_lines, smart_scroll_pos, max_scroll,
               visible_lines>>
browseVars == <<current_path, filter_dirs_only, remote, browse_return>>

\* ------------------------------------------------------- diagnostic lines
\* err: error_re matches; bytes: the count dd_re finds, -1 if it does not
\* match; nospace: the line holds "No space left on device".  The lines the
\* child may write: the disk-full notice (which matches neither expression),
\* an I/O-error line, a progress line for each byte count, and one line that
\* matches both expressions.
Line(e, b, n) == [err |-> e, bytes |-> b, nospace |-> n]

LineSet ==
    {Line(FALSE, -1, TRUE), Line(TRUE, -1, FALSE)}
    \cup {Line(FALSE, b, FALSE) : b \in 0..MaxBytes}
    \cup {Line(TRUE, MaxBytes, FALSE)}

\* total_size_bytes of a run: zero, below, and equal to the largest byte
\* count a progress line may report.
TotalSizes == {0, 1, MaxBytes}

\* Exit codes: success, 1, and one other non-zero code.
ExitCodes == {0, 1, 2}
Keys == {"none", "v", "V", "x"}

\* --------------------------------------------------------------- rationals
RatLeq(p, q) == p[1] * q[2] <= q[1] * p[2]
RatMin(p, q) == IF RatLeq(p, q) THEN p ELSE q

\* Mutant of Percentage: the clamp to 100 is missing.
PercentageUnclamped(bytes_copied, total) ==
    IF total > 0 THEN <<100 * bytes_copied, total>> ELSE <<0, 1>>

\* percentage = (bytes_copied / total_size_bytes) * 100 if total > 0 else 0
\* percentage = min(percentage, 100)
Percentage(bytes_copied, total) ==
    RatMin(IF total > 0 THEN <<100 * bytes_copied, total>> ELSE <<0, 1>>,
           <<100, 1>>)

\* ---------------------------------------------------------------- windows
\* A window is described by what is painted in it.  final = "" while the
\* operation runs; cells = <<>> for the progress-bar window.
NoWin == [exists |-> FALSE, bytes |-> 0, pct |-> <<0, 1>>, cells |-> <<>>,
          final |-> ""]
Win(b, p, c, f) == [exists |-> TRUE, bytes |-> b, pct |-> p, cells |-> c,
                    final |-> f]

\* ------------------------------------------------ double-precision floats
\* Python's float is the IEEE 754 double: 53 significant bits, results
\* rounded to nearest, ties to even.  The quantities of the block map are
\* far from the exponent limits, so a positive float is held as its
\* significant bits (most significant first) and the number of them that lie
\* after the binary point: the value is the number the bits spell / 2^frac.  The
\* arithmetic works on ChunkBits bits at a time, which is exact for sizes
\* below 2^30 and grids of fewer than 2^10 cells.
MantissaBits == 53
ChunkBits == 20

\* The w low binary digits of a natural number, most significant first.
BitsOfWidth(v, w) == [i \in 1..w |-> (v \div 2^(w - i)) % 2]

\* The binary digits of a natural number below 2^30, without leading zeros.
BitsOf(v) ==
    BitsOfWidth(v, CHOOSE l \in 0..30 :
                       2^(l) > v /\ (l = 0 \/ 2^(l - 1) <= v))

\* The natural number whose binary digits are the first i of bits.
RECURSIVE ValueUpTo(_, _)
ValueUpTo(bits, i) ==
    IF i = 0 THEN 0 ELSE 2 * ValueUpTo(bits, i - 1) + bits[i]

\* Round to nearest, ties to even: kept are the bits that stay, guard the
\* first bit dropped, sticky whether anything non-zero follows it.  Rounding
\* up adds one to kept: its last zero becomes one and the ones after it zero.
RoundNearestEven(kept, guard, sticky) ==
    LET zeros == {i \in DOMAIN kept : kept[i] = 0}
        j == CHOOSE i \in zeros : \A z \in zeros : z <= i
    IN IF ~(guard = 1 /\ (sticky \/ kept[Len(kept)] = 1)) THEN kept
       ELSE IF zeros = {} THEN <<1>> \o [i \in DOMAIN kept |-> 0]
       ELSE [i \in DOMAIN kept |->
                 IF i < j THEN kept[i] ELSE IF i = j THEN 1 ELSE 0]

\* Long division: the next need bits of r / n (r < n) and the remainder
\* left after them.
RECURSIVE DivBits(_, _, _)
DivBits(r, n, need) ==
    IF need = 0 THEN [bits |-> <<>>, rem |-> r]
    ELSE LET c == IF need < ChunkBits THEN need ELSE ChunkBits
             num == r * 2^(c)
             rest == DivBits(num % n, n, need - c)
         IN [bits |-> BitsOfWidth(num \div n, c) \o rest.bits,
             rem |-> rest.rem]

\* t / n in Python for integers t > 0 and n > 0: the correctly rounded
\* quotient.  A quotient below one starts after its leading zeros.
FloatDiv(t, n) ==
    LET int == BitsOf(t \div n)
        skipped == IF int # <<>> THEN 0
                   ELSE CHOOSE z \in 0..30 :
                            t * 2^(z + 1) >= n /\ t * 2^(z) < n
        q == DivBits((t % n) * 2^(skipped), n, MantissaBits - Len(int))
        guard == IF 2 * q.rem >= n THEN 1 ELSE 0
        sticky == 2 * q.rem - guard * n > 0
    IN [bits |-> RoundNearestEven(int \o q.bits, guard, sticky),
        frac |-> MantissaBits - Len(int) + skipped]

\* The exact product of the bits and a natural number k, from the least
\* significant chunk up with a carry.
RECURSIVE MulBits(_, _, _)
MulBits(bits, k, carry) ==
    IF bits = <<>> THEN BitsOf(carry)
    ELSE LET c == IF Len(bits) < ChunkBits THEN Len(bits) ELSE ChunkBits
             low == SubSeq(bits, Len(bits) - c + 1, Len(bits))
             s == k * ValueUpTo(low, Len(low)) + carry
         IN MulBits(SubSeq(bits, 1, Len(bits) - c), k, s \div 2^(c))
                \o BitsOfWidth(s % 2^(c), c)

\* k * f in Python for an integer k > 0 and a float f > 0: the exact product
\* rounded to MantissaBits significant bits.
FloatMul(k, f) ==
    LET p == MulBits(f.bits, k, 0)
        extra == Len(p) - MantissaBits
    IN IF extra <= 0 THEN [bits |-> p, frac |-> f.frac]
       ELSE [bits |-> RoundNearestEven(
                          SubSeq(p, 1, MantissaBits), p[MantissaBits + 1],
                          \E i \in MantissaBits + 2 .. Len(p) : p[i] = 1),
             frac |-> f.frac - extra]

\* int(k * (total / tc)) as Python computes it; int() cuts the fraction of
\* the product off.
CellByte(k, total, tc) ==
    LET f == FloatMul(k, FloatDiv(total, tc))
        whole == Len(f.bits) - f.frac
    IN IF k = 0 \/ total = 0 THEN 0
       ELSE IF f.frac <= 0
            THEN ValueUpTo(f.bits, Len(f.bits)) * 2^(0 - f.frac)
       ELSE IF whole <= 0 THEN 0
       ELSE ValueUpTo(f.bits, whole)

\* --------------------------------------------------------------- block map
\* total_chars = map_width * map_height
TotalChars(w, h) == w * h

\* filled_chars = int(total_chars * percentage / 100)
FilledChars(tc, pct) == (tc * pct[1]) \div (pct[2] * 100)

\* CellByte worked out once for the grids and sizes of the monitor's runs.
CellByteTable ==
    [k \in 0..(MaxMapWidth * MaxMapHeight),
     total \in 0..(2 * MaxBytes),
     tc \in 1..(MaxMapWidth * MaxMapHeight) |-> CellByte(k, total, tc)]

\* bytes_per_char = total_size_bytes / total_chars
\* char_start_byte = int(char_index * bytes_per_char)
CharStartByte(idx, total, tc) ==
    IF <<idx, total, tc>> \in DOMAIN CellByteTable
    THEN CellByteTable[idx, total, tc]
    ELSE CellByte(idx, total, tc)

\* char_end_byte = int((char_index + 1) * bytes_per_char)
CharEndByte(idx, total, tc) ==
    IF <<idx + 1, total, tc>> \in DOMAIN CellByteTable
    THEN CellByteTable[idx + 1, total, tc]
    ELSE CellByte(idx + 1, total, tc)

\* Mutant of Overlaps: touching intervals no longer count as overlapping.
OverlapsStrict(cs, ce, es, ee) == ~(ce <= es \/ cs >= ee)

\* not (char_end_byte < error_start or char_start_byte > error_end)
Overlaps(cs, ce, es, ee) == ~(ce < es \/ cs > ee)

\* for error_start, error_end in error_ranges: ... has_error = True; break
HasError(cs, ce, ranges) ==
    \E i \in DOMAIN ranges : Overlaps(cs, ce, ranges[i][1], ranges[i][2])

\* The glyph chosen for one cell: X error, # complete, % writing, . pending.
CellGlyph(idx, total, tc, filled, ranges) ==
    IF HasError(CharStartByte(idx, total, tc), CharEndByte(idx, total, tc), ranges)
    THEN "X"
    ELSE IF idx < filled THEN "#"
    ELSE IF idx = filled THEN "%"
    ELSE "."

\* The grid painted by one update, cell char_index at position char_index+1.
BlockMapCells(w, h, total, pct, ranges) ==
    [k \in 1..TotalChars(w, h) |->
        CellGlyph(k - 1, total, TotalChars(w, h),
                  FilledChars(TotalChars(w, h), pct), ranges)]

\* _draw_block_map: the window after one update.
DrawBlockMap(w, h, bytes_copied, total, pct, ranges) ==
    Win(bytes_copied, pct, BlockMapCells(w, h, total, pct, ranges), "")

\* _draw_progress_bar: the window after one update.
DrawProgressBar(bytes_copied, pct) == Win(bytes_copied, pct, <<>>, "")

\* ------------------------------------------------------------ the monitor
\* Mutant of Succeeded: the disk-full amnesty is granted for any exit code.
SucceededAnyCode(rc, lines) ==
    \/ rc = 0
    \/ \E i \in DOMAIN lines : lines[i].nospace

\* Mutant of Succeeded: a line matching the I/O-error pattern fails the run.
SucceededUnlessError(rc, lines) ==
    /\ \/ rc = 0
       \/ rc = 1 /\ \E i \in DOMAIN lines : lines[i].nospace
    /\ ~\E i \in DOMAIN lines : lines[i].err

\* returncode == 0, or returncode == 1 and "No space left on device" in text
Succeeded(rc, lines) ==
    \/ rc = 0
    \/ rc = 1 /\ \E i \in DOMAIN lines : lines[i].nospace

\* Mutant of AppendRange: the new range is put in front of the list.
AppendRangeFront(ranges, s, e) == <<<<s, e>>>> \o ranges

\* error_ranges.append((last_error_position, bytes_copied))
AppendRange(ranges, s, e) == Append(ranges, <<s, e>>)

\* Mutant of Drain: the text left in the stream is not collected.
DrainNothing(lines, rest) == lines

\* remaining = process.stderr.read(); stderr_lines.extend(remaining.split(...))
Drain(lines, rest) == lines \o rest

\* Mutant of OtherMode: the toggle always selects the block map.
OtherModeStuck(m) == "blockmap"

\* "blockmap" if current_mode == "progress" else "progress"
OtherMode(m) == IF m = "progress" THEN "blockmap" ELSE "progress"

\* The dialogs while the monitor is studied: none is open.
DialogsIdle ==
    /\ typed = <<>>
    /\ user_input = <<>>
    /\ warn_return = <<>>
    /\ menu_items = 0
    /\ current_row = 0
    /\ log_focused = FALSE
    /\ menu_return = <<>>
    /\ menu_key = 0
    /\ menu_mouse = [buttons |-> {}, inx |-> FALSE, row |-> 0]
    /\ log_messages = 0
    /\ scroll_pos = 0
    /\ log_view = <<0, 0, 0, 0, 0, 0>>
    /\ default_value = <<>>
    /\ input_str = <<>>
    /\ cursor_pos = 0
    /\ input_return = <<>>
    /\ inq = <<>>
    /\ term_out = <<>>

\* No operation flow is under study.
FlowIdle ==
    /\ flow = "none"
    /\ flow_step = 0
    /\ flow_answer = "none"
    /\ launched = 0
    /\ run_results = <<>>

\* No SMART viewer is open.
SmartIdle ==
    /\ use_extended = FALSE
    /\ formatted_lines = [flag |-> "-a", len |-> 0]
    /\ smart_scroll_pos = 0
    /\ max_scroll = 0
    /\ visible_lines = 0

\* No remote directory browser is open.
BrowseIdle ==
    /\ current_path = <<>>
    /\ filter_dirs_only = FALSE
    /\ remote = <<>>
    /\ browse_return = <<>>

Init ==
    /\ FlowIdle
    /\ SmartIdle
    /\ BrowseIdle
    /\ DialogsIdle
    /\ pc = "top"
    /\ child = "running"
    /\ returncode = -1
    /\ pipe = <<>>
    /\ stderr_lines = <<>>
    /\ total_size_bytes \in TotalSizes
    /\ current_mode \in {"progress", "blockmap"}
    /\ first_draw = TRUE
    /\ last_bytes_copied = 0
    /\ last_percentage = <<0, 1>>
    /\ error_ranges = <<>>
    /\ last_error_position = 0
    /\ prog_win = NoWin
    /\ block_win = NoWin
    /\ map_width = MaxMapWidth
    /\ map_height = MaxMapHeight
    /\ samples = <<>>
    /\ operation_succeeded = FALSE

\* The child writes one diagnostic line.
ChildWrite ==
    /\ UNCHANGED <<flowVars, smartVars, browseVars, warnVars, menuVars, logVars, inputVars>>
    /\ child = "running"
    /\ Len(stderr_lines) + Len(pipe) < MaxLines
    /\ \E l \in LineSet : pipe' = Append(pipe, l)
    /\ UNCHANGED <<pc, child, returncode, stderr_lines, total_size_bytes,
                   current_mode, first_draw, last_bytes_copied,
                   last_percentage, error_ranges, last_error_position,
                   prog_win, block_win, map_width, map_height, samples,
                   operation_succeeded>>

\* The child exits.
ChildExit ==
    /\ UNCHANGED <<flowVars, smartVars, browseVars, warnVars, menuVars, logVars, inputVars>>
    /\ child = "running"
    /\ child' = "exited"
    /\ returncode' \in ExitCodes
    /\ UNCHANGED <<pc, pipe, stderr_lines, total_size_bytes, current_mode,
                   first_draw, last_bytes_copied, last_percentage,
                   error_ranges, last_error_position, prog_win, block_win,
                   map_width, map_height, samples, operation_succeeded>>

\* Mutant of ToggleKeys: another key toggles the view as well.
ToggleKeysAny == {"v", "V", "x"}

\* key in [ord('v'), ord('V')]
ToggleKeys == {"v", "V"}

\* Loop head with the child alive, then the key branch for the value key
\* returned by the non-blocking getch().
PollStep(key) ==
    /\ pc = "top"
    /\ child = "running"
    /\ IF key \in ToggleKeys
       THEN /\ current_mode' = OtherMode(current_mode)
            /\ prog_win' = IF current_mode = "progress" THEN NoWin ELSE prog_win
            /\ block_win' = IF current_mode = "blockmap" THEN NoWin ELSE block_win
            /\ first_draw' = TRUE
       ELSE UNCHANGED <<current_mode, prog_win, block_win, first_draw>>
    /\ pc' = "read"
    /\ UNCHANGED <<child, returncode, pipe, stderr_lines, total_size_bytes,
                   last_bytes_copied, last_percentage, error_ranges,
                   last_error_position, map_width, map_height, samples,
                   operation_succeeded>>
    /\ UNCHANGED <<flowVars, smartVars, browseVars, warnVars, menuVars, logVars>>

\* The poll returning key, whatever the terminal has sent so far.
PollWithKey(key) == PollStep(key) /\ UNCHANGED inputVars

\* One pass through the loop head, for any key the poll may return.
PollKey == \E key \in Keys : PollWithKey(key)

\* readline() returns a line: error check, byte count, sample, renderer.
ReadLine ==
    /\ UNCHANGED <<flowVars, smartVars, browseVars, warnVars, menuVars, logVars, inputVars>>
    /\ pc = "read"
    /\ pipe # <<>>
    /\ LET line == Head(pipe)
           pending == IF line.err THEN last_bytes_copied ELSE last_error_position
       IN
        /\ pipe' = Tail(pipe)
        /\ stderr_lines' = Append(stderr_lines, line)
        /\ pc' = "top"
        /\ IF line.bytes = -1
           THEN /\ last_error_position' = pending
                /\ UNCHANGED <<first_draw, last_bytes_copied, last_percentage,
                               error_ranges, prog_win, block_win, samples>>
           ELSE LET bytes_copied == line.bytes
                    percentage == Percentage(bytes_copied, total_size_bytes)
                    ranges == IF pending > 0
                              THEN AppendRange(error_ranges, pending, bytes_copied)
                              ELSE error_ranges
                IN
                /\ error_ranges' = ranges
                /\ last_error_position' = IF pending > 0 THEN 0 ELSE pending
                /\ IF current_mode = "progress"
                   THEN /\ prog_win' = DrawProgressBar(bytes_copied, percentage)
                        /\ UNCHANGED block_win
                   ELSE /\ block_win' = DrawBlockMap(map_width, map_height,
                                            bytes_copied, total_size_bytes,
                                            percentage, ranges)
                        /\ UNCHANGED prog_win
                /\ samples' = Append(samples, [bytes |-> bytes_copied,
                                               pct |-> percentage,
                                               mode |-> current_mode])
                /\ first_draw' = FALSE
                /\ last_bytes_copied' = bytes_copied
                /\ last_percentage' = percentage
    /\ UNCHANGED <<child, returncode, total_size_bytes, current_mode,
                   map_width, map_height, operation_succeeded>>

\* readline() returns '' at end of file: sleep and continue.
ReadEof ==
    /\ UNCHANGED <<flowVars, smartVars, browseVars, warnVars, menuVars, logVars, inputVars>>
    /\ pc = "read"
    /\ pipe = <<>>
    /\ child = "exited"
    /\ pc' = "top"
    /\ UNCHANGED <<child, returncode, pipe, stderr_lines, total_size_bytes,
                   current_mode, first_draw, last_bytes_copied,
                   last_percentage, error_ranges, last_error_position,
                   prog_win, block_win, map_width, map_height, samples,
                   operation_succeeded>>

\* _show_operation_result up to its getch(): the final screen in the window
\* of the active mode, if that window exists.
FinalWin(win, ok) ==
    Win(win.bytes, win.pct,
        [k \in DOMAIN win.cells |-> IF ok THEN "#" ELSE "X"],
        IF ok THEN "success" ELSE "failed")

\* Loop exit: wait, drain the stream, decide success, show the result.
Finish ==
    /\ UNCHANGED <<flowVars, smartVars, browseVars, warnVars, menuVars, logVars, inputVars>>
    /\ pc = "top"
    /\ child = "exited"
    /\ stderr_lines' = Drain(stderr_lines, pipe)
    /\ pipe' = <<>>
    /\ operation_succeeded' = Succeeded(returncode, stderr_lines')
    /\ IF current_mode = "progress"
       THEN /\ prog_win' = IF prog_win.exists
                           THEN FinalWin(prog_win, operation_succeeded')
                           ELSE prog_win
            /\ pc' = IF prog_win.exists THEN "anykey" ELSE "done"
            /\ UNCHANGED block_win
       ELSE /\ block_win' = IF block_win.exists
                            THEN FinalWin(block_win, operation_succeeded')
                            ELSE block_win
            /\ pc' = IF block_win.exists THEN "anykey" ELSE "done"
            /\ UNCHANGED prog_win
    /\ UNCHANGED <<child, returncode, total_size_bytes, current_mode,
                   first_draw, last_bytes_copied, last_percentage,
                   error_ranges, last_error_position, map_width, map_height,
                   samples>>

\* Mutant of DismissStep: the window is not deleted at the end.
DismissKeepsWindow ==
    /\ pc = "anykey"
    /\ pc' = "done"
    /\ UNCHANGED <<flowVars, smartVars, browseVars, warnVars, menuVars, logVars, monitorVars>>

\* _show_operation_result after its getch(): clean up and return.
DismissStep ==
    /\ UNCHANGED <<flowVars, smartVars, browseVars, warnVars, menuVars, logVars>>
    /\ pc = "anykey"
    /\ pc' = "done"
    /\ prog_win' = IF current_mode = "progress" THEN NoWin ELSE prog_win
    /\ block_win' = IF current_mode = "blockmap" THEN NoWin ELSE block_win
    /\ UNCHANGED <<child, returncode, pipe, stderr_lines, total_size_bytes,
                   current_mode, first_draw, last_bytes_copied,
                   last_percentage, error_ranges, last_error_position,
                   map_width, map_height, samples, operation_succeeded>>

\* The keypress ending _show_operation_result, whatever key it is.
Dismiss == DismissStep /\ UNCHANGED inputVars

Next ==
    \/ ChildWrite
    \/ ChildExit
    \/ PollKey
    \/ ReadLine
    \/ ReadEof
    \/ Finish
    \/ Dismiss

Spec == Init /\ [][Next]_vars

\* ------------------------------------------------ the monitor with faults
\* A curses call outside a try block raises curses.error: window creation
\* (derwin in draw_bordered_window), hline, move, clrtoeol and the block-map
\* cell writes in the renderers.  The renderer is called from the loop with
\* no handler, so the exception leaves run_dd_with_progress: pc = "raised".
\* On a first draw the fault comes from the creation (no window is cached)
\* or from a later call (the window is cached, its fields unpainted); on an
\* update the cached window stays as it was.
FaultedWin(win, first) ==
    IF first \/ ~win.exists
    THEN {NoWin, Win(0, <<0, 1>>, <<>>, "")}
    ELSE {win}

\* readline() returns a progress line and the renderer call raises.
RenderFault ==
    /\ UNCHANGED <<flowVars, smartVars, browseVars, warnVars, menuVars, logVars, inputVars>>
    /\ pc = "read"
    /\ pipe # <<>>
    /\ Head(pipe).bytes # -1
    /\ LET line == Head(pipe)
           pending == IF line.err THEN last_bytes_copied ELSE last_error_position
       IN
        /\ pipe' = Tail(pipe)
        /\ stderr_lines' = Append(stderr_lines, line)
        /\ error_ranges' = IF pending > 0
                           THEN AppendRange(error_ranges, pending, line.bytes)
                           ELSE error_ranges
        /\ last_error_position' = IF pending > 0 THEN 0 ELSE pending
    /\ IF current_mode = "progress"
       THEN /\ prog_win' \in FaultedWin(prog_win, first_draw)
            /\ UNCHANGED block_win
       ELSE /\ block_win' \in FaultedWin(block_win, first_draw)
            /\ UNCHANGED prog_win
    /\ pc' = "raised"
    /\ UNCHANGED <<child, returncode, total_size_bytes, current_mode,
                   first_draw, last_bytes_copied, last_percentage,
                   map_width, map_height, samples, operation_succeeded>>

\* Loop exit, drain, success decision, then a write of _show_operation_result
\* raises before its getch(): the outcome is computed but never returned.
ResultFault ==
    /\ UNCHANGED <<flowVars, smartVars, browseVars, warnVars, menuVars, logVars, inputVars>>
    /\ pc = "top"
    /\ child = "exited"
    /\ IF current_mode = "progress" THEN prog_win.exists ELSE block_win.exists
    /\ stderr_lines' = Drain(stderr_lines, pipe)
    /\ pipe' = <<>>
    /\ operation_succeeded' = Succeeded(returncode, stderr_lines')
    /\ pc' = "raised"
    /\ UNCHANGED <<child, returncode, total_size_bytes, current_mode,
                   first_draw, last_bytes_copied, last_percentage,
                   error_ranges, last_error_position, prog_win, block_win,
                   map_width, map_height, samples>>

NextFault ==
    \/ ChildWrite
    \/ ChildExit
    \/ PollKey
    \/ ReadLine
    \/ ReadEof
    \/ Finish
    \/ Dismiss
    \/ RenderFault
    \/ ResultFault

SpecFault == Init /\ [][NextFault]_vars

\* --------------------------------------- the monitor with a keyboard queue
\* Keys typed during a run wait in the terminal's input queue (inq, here
\* key names); each pass of the loop takes at most one of them with getch()
\* and then blocks in readline() until the child writes a line or exits.
MaxQueued == 2

\* The operator presses a key while the monitor runs.
KeyPress ==
    /\ pc \in {"top", "read", "anykey"}
    /\ Len(inq) < MaxQueued
    /\ \E key \in Keys \ {"none"} : inq' = Append(inq, key)
    /\ UNCHANGED <<flowVars, smartVars, browseVars, pc, monitorVars, warnVars, menuVars, logVars,
                   default_value, input_str, cursor_pos, input_return,
                   term_out>>

\* key = stdscr.getch() under nodelay(True): the oldest queued key, or -1.
PollQueued ==
    /\ PollStep(IF inq = <<>> THEN "none" ELSE Head(inq))
    /\ inq' = IF inq = <<>> THEN inq ELSE Tail(inq)
    /\ UNCHANGED <<default_value, input_str, cursor_pos, input_return,
                   term_out>>

\* stdscr.getch() of _show_operation_result (blocking): the oldest queued
\* key ends the result screen.
DismissQueued ==
    /\ inq # <<>>
    /\ DismissStep
    /\ inq' = Tail(inq)
    /\ UNCHANGED <<default_value, input_str, cursor_pos, input_return,
                   term_out>>

NextKeys ==
    \/ ChildWrite
    \/ ChildExit
    \/ KeyPress
    \/ PollQueued
    \/ ReadLine
    \/ ReadEof
    \/ Finish
    \/ DismissQueued

SpecKeys == Init /\ [][NextKeys]_vars

\* ------------------------------------------- _draw_block_map on any input
\* Largest total size, byte count and number of error ranges handed to
\* _draw_block_map when it is studied on its own.
MaxMapTotal == 4
MaxRanges == 1

RECURSIVE SeqsUpTo(_, _)
SeqsUpTo(S, n) ==
    IF n = 0 THEN {<<>>}
    ELSE LET shorter == SeqsUpTo(S, n - 1)
         IN shorter \cup {Append(q, x) : q \in {r \in shorter : Len(r) = n - 1}, x \in S}

\* The arguments of a call: any grid, any total, any list of ranges.
InitMap ==
    /\ FlowIdle
    /\ SmartIdle
    /\ BrowseIdle
    /\ DialogsIdle
    /\ pc = "map"
    /\ child = "exited"
    /\ returncode = 0
    /\ pipe = <<>>
    /\ stderr_lines = <<>>
    /\ total_size_bytes \in 0..MaxMapTotal
    /\ current_mode = "blockmap"
    /\ first_draw = TRUE
    /\ last_bytes_copied = 0
    /\ last_percentage = <<0, 1>>
    /\ error_ranges \in SeqsUpTo((0..total_size_bytes) \X (0..total_size_bytes),
                                 MaxRanges)
    /\ last_error_position = 0
    /\ prog_win = NoWin
    /\ block_win = NoWin
    /\ map_width \in 0..MaxMapWidth
    /\ map_height \in 0..MaxMapHeight
    /\ samples = <<>>
    /\ operation_succeeded = FALSE

\* One call of _draw_block_map with a byte count and its percentage.
MapDraw ==
    /\ UNCHANGED <<flowVars, smartVars, browseVars, warnVars, menuVars, logVars, inputVars>>
    /\ pc = "map"
    /\ \E b \in 0..MaxMapTotal :
        /\ last_bytes_copied' = b
        /\ last_percentage' = Percentage(b, total_size_bytes)
        /\ block_win' = DrawBlockMap(map_width, map_height, b, total_size_bytes,
                                     Percentage(b, total_size_bytes), error_ranges)
    /\ first_draw' = FALSE
    /\ UNCHANGED <<pc, child, returncode, pipe, stderr_lines, total_size_bytes,
                   current_mode, error_ranges, last_error_position, prog_win,
                   map_width, map_height, samples, operation_succeeded>>

NextMap == MapDraw

SpecMap == InitMap /\ [][NextMap]_vars

\* ------------------------------------- the cells' byte ranges on any grid
\* Largest grid and total size for which the byte ranges of the cells are
\* worked out on their own.
MaxCellsWidth == 11
MaxCellsHeight == 1
MaxCellsTotal == 15

\* The arguments of a call: a grid with cells, any total, no error range.
InitCells ==
    /\ FlowIdle
    /\ SmartIdle
    /\ BrowseIdle
    /\ DialogsIdle
    /\ pc = "cells"
    /\ child = "exited"
    /\ returncode = 0
    /\ pipe = <<>>
    /\ stderr_lines = <<>>
    /\ total_size_bytes \in 0..MaxCellsTotal
    /\ current_mode = "blockmap"
    /\ first_draw = TRUE
    /\ last_bytes_copied = 0
    /\ last_percentage = <<0, 1>>
    /\ error_ranges = <<>>
    /\ last_error_position = 0
    /\ prog_win = NoWin
    /\ block_win = NoWin
    /\ map_width \in 1..MaxCellsWidth
    /\ map_height \in 1..MaxCellsHeight
    /\ samples = <<>>
    /\ operation_succeeded = FALSE

\* One call of _draw_block_map, before the copy or at its end.
CellsDraw ==
    /\ pc = "cells"
    /\ \E b \in {0, total_size_bytes} :
        /\ last_bytes_copied' = b
        /\ last_percentage' = Percentage(b, total_size_bytes)
        /\ block_win' = DrawBlockMap(map_width, map_height, b, total_size_bytes,
                                     Percentage(b, total_size_bytes), error_ranges)
    /\ first_draw' = FALSE
    /\ UNCHANGED <<pc, child, returncode, pipe, stderr_lines, total_size_bytes,
                   current_mode, error_ranges, last_error_position, prog_win,
                   map_width, map_height, samples, operation_succeeded>>
    /\ UNCHANGED <<flowVars, smartVars, browseVars, warnVars, menuVars, logVars, inputVars>>

SpecCells == InitCells /\ [][CellsDraw]_vars

\* ----------------------------------------------------- show_final_warning
\* Longest input typed in the model (getstr itself accepts GetstrLimit bytes).
MaxTyped == 4
GetstrLimit == 10

\* The bytes the operator may type: letters of YES in both cases, another
\* letter, a blank, and a byte that is not valid UTF-8.
WarnChars == {"Y", "y", "E", "e", "S", "s", "x", " ", "BAD"}
Whitespace == {" "}

\* str.upper(), character by character.
UpperChar(c) ==
    CASE c = "y" -> "Y"
      [] c = "e" -> "E"
      [] c = "s" -> "S"
      [] c = "x" -> "X"
      [] OTHER -> c
Upper(str) == [i \in DOMAIN str |-> UpperChar(str[i])]

RECURSIVE LStrip(_)
LStrip(str) ==
    IF str # <<>> /\ Head(str) \in Whitespace THEN LStrip(Tail(str)) ELSE str

RECURSIVE RStrip(_)
RStrip(str) ==
    IF str # <<>> /\ str[Len(str)] \in Whitespace
    THEN RStrip(SubSeq(str, 1, Len(str) - 1))
    ELSE str

\* Mutant of Strip: only leading whitespace is removed.
StripLeftOnly(str) == LStrip(str)

\* str.strip()
Strip(str) == RStrip(LStrip(str))

\* win.getstr(...).decode('utf-8').strip(), or "" when that raises.
ReadUserInput(bytes) ==
    IF \E i \in DOMAIN bytes : bytes[i] = "BAD" THEN <<>> ELSE Strip(bytes)

\* user_input.upper() == "YES"
FinalWarningResult(input) == Upper(input) = <<"Y", "E", "S">>

\* The monitor while a dialog is studied: no operation runs.
MonitorIdle ==
    /\ child = "exited"
    /\ returncode = 0
    /\ pipe = <<>>
    /\ stderr_lines = <<>>
    /\ total_size_bytes = 0
    /\ current_mode = "progress"
    /\ first_draw = TRUE
    /\ last_bytes_copied = 0
    /\ last_percentage = <<0, 1>>
    /\ error_ranges = <<>>
    /\ last_error_position = 0
    /\ prog_win = NoWin
    /\ block_win = NoWin
    /\ map_width = 0
    /\ map_height = 0
    /\ samples = <<>>
    /\ operation_succeeded = FALSE

InitWarn ==
    /\ FlowIdle
    /\ SmartIdle
    /\ BrowseIdle
    /\ MonitorIdle
    /\ DialogsIdle
    /\ pc = "getstr"

\* The operator types one more byte into getstr().
WarnType ==
    /\ pc = "getstr"
    /\ Len(typed) < MaxTyped
    /\ Len(typed) < GetstrLimit
    /\ \E c \in WarnChars : typed' = Append(typed, c)
    /\ UNCHANGED <<pc, user_input, warn_return>>
    /\ UNCHANGED <<flowVars, smartVars, browseVars, monitorVars, menuVars, logVars, inputVars>>

\* Enter ends getstr(); the dialog closes and returns.
WarnEnter ==
    /\ pc = "getstr"
    /\ user_input' = ReadUserInput(typed)
    /\ warn_return' = <<FinalWarningResult(user_input')>>
    /\ pc' = "returned"
    /\ UNCHANGED typed
    /\ UNCHANGED <<flowVars, smartVars, browseVars, monitorVars, menuVars, logVars, inputVars>>

NextWarn == WarnType \/ WarnEnter

SpecWarn == InitWarn /\ [][NextWarn]_vars

\* ------------------------------------------- the log pane and the menu
\* Largest menu and longest log in the model.
MaxItems == 5
MaxLogLen == 9

\* Key codes returned by getch(): ASCII codes and the curses KEY_* values.
KEY_DOWN == 258
KEY_UP == 259
KEY_HOME == 262
KEY_F1 == 265
KEY_F12 == 276
KEY_NPAGE == 338
KEY_PPAGE == 339
KEY_ENTER == 343
KEY_END == 360
KEY_MOUSE == 409
\* log_win_height = 8
LogWinHeight == 8

\* ord('1')..ord('9'), 'q', 'Q', '?', Tab, LF, CR, Esc and 'x' (any other key)
MenuKeys ==
    {KEY_UP, KEY_DOWN, KEY_HOME, KEY_END, KEY_NPAGE, KEY_PPAGE, KEY_F1,
     KEY_F12, KEY_ENTER, KEY_MOUSE} \cup (49..57) \cup {113, 81, 63, 9, 10, 13,
     27, 120}

\* button_state: the bits the menu tests, alone and in the pairs that show
\* the order of its tests; {} stands for a state with other bits only.
ButtonStates ==
    {{}, {"B1_CLICKED"}, {"B3_CLICKED"}, {"B4_PRESSED"}, {"B5_PRESSED"},
     {"B1_CLICKED", "B3_CLICKED"}, {"B3_CLICKED", "B4_PRESSED"},
     {"B4_PRESSED", "B5_PRESSED"}}

\* getmouse(): button_state, whether mx lies inside the window, and
\* my - menu_item_y_start.  A pointer left or right of the window is taken
\* at one row, row 0.
MouseEvents ==
    {ev \in [buttons : ButtonStates, inx : BOOLEAN, row : -1..MaxItems] :
        ev.inx \/ ev.row = 0}

\* The value of ev when the key is not KEY_MOUSE (getmouse() is not called).
NoMouse == [buttons |-> {}, inx |-> FALSE, row |-> 0]

Max(a, b) == IF a >= b THEN a ELSE b
Min(a, b) == IF a <= b THEN a ELSE b

\* visible_lines = log_win_height - 2
VisibleLines == LogWinHeight - 2

\* Mutant of BottomScroll: the top of the log.
BottomScrollTop(total_lines) == 0

\* max(0, total_lines - visible_lines)
BottomScroll(total_lines) == Max(0, total_lines - VisibleLines)

\* Mutant of LogScroll: Down and PageDown do not stop at the bottom.
LogScrollUnclamped(key, pos, total_lines) ==
    CASE key = KEY_UP -> Max(0, pos - 1)
      [] key = KEY_DOWN -> pos + 1
      [] key = KEY_PPAGE -> Max(0, pos - VisibleLines)
      [] key = KEY_NPAGE -> pos + VisibleLines
      [] key = KEY_HOME -> 0
      [] key = KEY_END -> BottomScroll(total_lines)
      [] OTHER -> pos

\* handle_log_scroll_keys: the new scroll position.
LogScroll(key, pos, total_lines) ==
    CASE key = KEY_UP -> Max(0, pos - 1)
      [] key = KEY_DOWN -> Min(BottomScroll(total_lines), pos + 1)
      [] key = KEY_PPAGE -> Max(0, pos - VisibleLines)
      [] key = KEY_NPAGE -> Min(BottomScroll(total_lines), pos + VisibleLines)
      [] key = KEY_HOME -> 0
      [] key = KEY_END -> BottomScroll(total_lines)
      [] OTHER -> pos

\* Mutant of QuitKeys: only the lower-case letter quits.
QuitKeysLowerOnly == {113}

\* key in [ord('q'), ord('Q')]
QuitKeys == {113, 81}

\* Mutant of FocusReturnKeys: Esc does not leave the log pane.
FocusReturnKeysTabOnly == {9}

\* key == 9 or key == 27 while the log pane has the focus
FocusReturnKeys == {9, 27}

\* Mutant of DigitIndex: the digit is converted relative to '0'.
DigitIndexFromZero(key) == key - 48

\* num = key - ord('1')
DigitIndex(key) == key - 49

\* Messages logged by one visit of the help overlay, the menu's own three
\* around it included: five more when ddi.md is read, two when it is missing.
HelpLogged == {8, 5}
\* Messages logged around the about overlay.
AboutLogged == {3}

InitMenu ==
    /\ FlowIdle
    /\ SmartIdle
    /\ BrowseIdle
    /\ MonitorIdle
    /\ DialogsIdle
    /\ pc = "idle"

\* Some component logs a message while no dialog is open.
LogEmit ==
    /\ pc = "idle"
    /\ log_messages < MaxLogLen
    /\ log_messages' = log_messages + 1
    /\ UNCHANGED <<pc, scroll_pos, log_view, menu_key>>
    /\ UNCHANGED <<flowVars, smartVars, browseVars, monitorVars, warnVars, menuVars, inputVars>>

\* get_menu_choice is called: an empty item list returns -1 at once.
MenuOpen ==
    /\ pc = "idle"
    /\ \E n \in 0..MaxItems :
        /\ menu_items' = n
        /\ IF n = 0
           THEN /\ menu_return' = <<-1>>
                /\ pc' = "idle"
                /\ UNCHANGED <<current_row, log_focused>>
           ELSE /\ menu_return' = <<>>
                /\ pc' = "menu"
                /\ current_row' = 0
                /\ log_focused' = FALSE
    /\ UNCHANGED <<menu_key, menu_mouse>>
    /\ UNCHANGED <<flowVars, smartVars, browseVars, monitorVars, warnVars, logVars, inputVars>>

\* The menu returns v.
MenuReturns(v) ==
    /\ menu_return' = <<v>>
    /\ pc' = "idle"
    /\ UNCHANGED <<current_row, log_focused, logVars>>

\* Mutant of MenuStays: the selection is not stored.
MenuStaysSameRow(r) ==
    /\ current_row' = current_row
    /\ UNCHANGED <<pc, menu_return, log_focused, logVars>>

\* The menu stays open with the selection at row r.
MenuStays(r) ==
    /\ current_row' = r
    /\ UNCHANGED <<pc, menu_return, log_focused, logVars>>

\* Mutant of OverlayShown: the selection goes back to the first item.
OverlayShownResetsRow(k) ==
    /\ log_messages + k <= MaxLogLen
    /\ log_messages' = log_messages + k
    /\ current_row' = 0
    /\ UNCHANGED <<pc, menu_return, log_focused, scroll_pos, log_view>>

\* An overlay was shown and closed, logging k messages; the loop continues.
OverlayShown(k) ==
    /\ log_messages + k <= MaxLogLen
    /\ log_messages' = log_messages + k
    /\ UNCHANGED <<pc, menu_return, log_focused, current_row, scroll_pos,
                   log_view>>

\* Mutant of ClickOnItem: the column of the click is not tested.
ClickOnItemAnyColumn(ev, n) == 0 <= ev.row /\ ev.row < n

\* start_x <= mx < start_x + menu_width and
\* menu_item_y_start <= my < menu_item_y_end, then 0 <= clicked_row < n
ClickOnItem(ev, n) == ev.inx /\ 0 <= ev.row /\ ev.row < n

\* Mutant of MenuMouse: the wheel moves the selection without clamping.
MenuMouseWheelUnclamped(ev) ==
    IF "B1_CLICKED" \in ev.buttons
    THEN IF ClickOnItem(ev, menu_items)
         THEN MenuReturns(ev.row)
         ELSE MenuStays(current_row)
    ELSE IF "B3_CLICKED" \in ev.buttons THEN MenuReturns(-1)
    ELSE IF "B4_PRESSED" \in ev.buttons THEN MenuStays(current_row - 1)
    ELSE IF "B5_PRESSED" \in ev.buttons THEN MenuStays(current_row + 1)
    ELSE MenuStays(current_row)

\* elif key == curses.KEY_MOUSE
MenuMouse(ev) ==
    IF "B1_CLICKED" \in ev.buttons
    THEN IF ClickOnItem(ev, menu_items)
         THEN MenuReturns(ev.row)
         ELSE MenuStays(current_row)
    ELSE IF "B3_CLICKED" \in ev.buttons THEN MenuReturns(-1)
    ELSE IF "B4_PRESSED" \in ev.buttons THEN MenuStays(Max(0, current_row - 1))
    ELSE IF "B5_PRESSED" \in ev.buttons
    THEN MenuStays(Min(menu_items - 1, current_row + 1))
    ELSE MenuStays(current_row)

\* One pass of the menu loop: getch() and the handling of the key.
MenuKey ==
    /\ pc = "menu"
    /\ \E key \in MenuKeys :
      \E ev \in IF key = KEY_MOUSE THEN MouseEvents ELSE {NoMouse} :
        /\ menu_key' = key
        /\ menu_mouse' = ev
        /\ IF log_focused
           THEN IF key \in FocusReturnKeys
                THEN /\ log_focused' = FALSE
                     /\ scroll_pos' = BottomScroll(log_messages)
                     /\ UNCHANGED <<pc, menu_return, current_row, log_messages,
                                    log_view>>
                ELSE /\ scroll_pos' = LogScroll(key, scroll_pos, log_messages)
                     /\ UNCHANGED <<pc, menu_return, current_row, log_focused,
                                    log_messages, log_view>>
           ELSE IF key = KEY_UP /\ current_row > 0
                THEN MenuStays(current_row - 1)
           ELSE IF key = KEY_DOWN /\ current_row < menu_items - 1
                THEN MenuStays(current_row + 1)
           ELSE IF key >= 49 /\ key <= 57
                THEN IF DigitIndex(key) < menu_items
                     THEN MenuReturns(DigitIndex(key))
                     ELSE MenuStays(current_row)
           ELSE IF key \in QuitKeys THEN MenuReturns(-1)
           ELSE IF key = KEY_F1 \/ key = 63
                THEN \E k \in HelpLogged : OverlayShown(k)
           ELSE IF key = KEY_F12
                THEN \E k \in AboutLogged : OverlayShown(k)
           ELSE IF key = KEY_MOUSE THEN MenuMouse(ev)
           ELSE IF key = 9
                THEN /\ log_focused' = TRUE
                     /\ UNCHANGED <<pc, menu_return, current_row, logVars>>
           ELSE IF key = KEY_ENTER \/ key \in {10, 13}
                THEN MenuReturns(current_row)
           ELSE IF key = 27 THEN MenuReturns(-1)
           ELSE MenuStays(current_row)
    /\ UNCHANGED menu_items
    /\ UNCHANGED <<flowVars, smartVars, browseVars, monitorVars, warnVars, inputVars>>

NextMenu == LogEmit \/ MenuOpen \/ MenuKey

SpecMenu == InitMenu /\ [][NextMenu]_vars

\* ------------------------------------------------------------ the log pane
\* curses.newpad(1000, w): the rows of the log pad
PadHeight == 1000

\* Largest number of messages logged in a run of the log pane's model.
MaxEmits == 1002

\* emit: start_line = max(0, len(self.log_messages) - (h - 1)), h the pad's
EmitStartLine(n) == Max(0, n - (PadHeight - 1))

\* screen_pad.refresh(pminrow, 0, log_win_y + 1, 2, h - 2, w - 3): the
\* pane's rows show the pad from row pminrow down; a pminrow past the pad
\* is a curses error, which both callers swallow, and the pane keeps what
\* it showed.  Row r (from 0) of the pad holds, after emit has cleared it
\* and written log_messages[start_line:] from row 0 down, message
\* start_line + r + 1; 0 stands for a blank row.
PadRefresh(pminrow, n, old) ==
    IF pminrow >= PadHeight THEN old
    ELSE [i \in 1..VisibleLines |->
            LET r == pminrow + i - 1
            IN IF r < PadHeight /\ r < n - EmitStartLine(n)
               THEN EmitStartLine(n) + r + 1
               ELSE 0]

InitLog ==
    /\ FlowIdle
    /\ SmartIdle
    /\ BrowseIdle
    /\ MonitorIdle
    /\ DialogsIdle
    /\ pc = "log"

\* CursesHandler.emit: append the message, redraw the pad, refresh the pane
\* from start_line.
Emit ==
    /\ pc = "log"
    /\ log_messages < MaxEmits
    /\ log_messages' = log_messages + 1
    /\ log_view' = PadRefresh(EmitStartLine(log_messages'), log_messages',
                              log_view)
    /\ UNCHANGED <<pc, scroll_pos>>
    /\ UNCHANGED <<flowVars, smartVars, browseVars, monitorVars, warnVars, menuVars, inputVars>>

\* refresh_log_window: refresh the pane from
\* max(0, len(log_messages) - (log_win_height - 2)).
RefreshLogWindow ==
    /\ pc = "log"
    /\ log_view' = PadRefresh(BottomScroll(log_messages), log_messages,
                              log_view)
    /\ UNCHANGED <<pc, log_messages, scroll_pos>>
    /\ UNCHANGED <<flowVars, smartVars, browseVars, monitorVars, warnVars, menuVars, inputVars>>

SpecLog == InitLog /\ [][Emit \/ RefreshLogWindow]_vars

\* ------------------------------------------------- the text-input dialog
\* max_len = win_w - 8 of the model's window, and the number of codes the
\* terminal may have delivered ahead of the dialog's reads.
MaxInputLen == 2
MaxPending == 1

KEY_LEFT == 260
KEY_RIGHT == 261
KEY_BACKSPACE == 263
KEY_DC == 330

\* The codes above 255 that the dialog does not discard.
EditKeys == {KEY_BACKSPACE, KEY_DC, KEY_LEFT, KEY_RIGHT, KEY_HOME, KEY_END}

\* Keys the operator presses: 'a', Enter (LF, CR, KEY_ENTER), Esc, DEL and
\* the editing keys.
TypedKeys == {97, 10, 13, KEY_ENTER, 27, 127} \cup EditKeys

\* What the pointer device makes the terminal send: KEY_MOUSE, a bare scroll
\* key code, an SGR report ESC [ < ... M (its parameters reduced to '<'), an
\* X10 report ESC [ M Cb Cx Cy (wheel-down at column and row 65, three bytes
\* 'a'), and the arrow sequence ESC O A of the alternate-scroll mode.
MouseReports ==
    {<<KEY_MOUSE>>, <<KEY_UP>>, <<KEY_DOWN>>, <<KEY_PPAGE>>, <<KEY_NPAGE>>,
     <<27, 91, 60, 77>>, <<27, 91, 77, 97, 97, 97>>, <<27, 79, 65>>}

\* A code in the input queue; mouse tells whether the pointer device or a
\* key press produced it.
InputCode(c, m) == [code |-> c, mouse |-> m]

\* Default values a caller passes: none, or "d".
DefaultValues == {<<>>, <<100>>}

\* input_str[:pos] + chr(key) + input_str[pos:]
InsertAt(str, pos, ch) ==
    SubSeq(str, 1, pos) \o <<ch>> \o SubSeq(str, pos + 1, Len(str))

\* input_str[:i-1] + input_str[i:]   (the character before position i)
RemoveBefore(str, i) == SubSeq(str, 1, i - 1) \o SubSeq(str, i + 1, Len(str))

\* Mutant of EditResult: a printable character is inserted whatever the
\* length of the buffer.
EditResultUnbounded(key, str, pos) ==
    IF key \in {KEY_BACKSPACE, 127, 8}
    THEN IF pos > 0 THEN <<RemoveBefore(str, pos), pos - 1>> ELSE <<str, pos>>
    ELSE IF key = KEY_DC
    THEN IF pos < Len(str) THEN <<RemoveBefore(str, pos + 1), pos>>
         ELSE <<str, pos>>
    ELSE IF key = KEY_LEFT THEN <<str, IF pos > 0 THEN pos - 1 ELSE pos>>
    ELSE IF key = KEY_RIGHT
    THEN <<str, IF pos < Len(str) THEN pos + 1 ELSE pos>>
    ELSE IF key = KEY_HOME THEN <<str, 0>>
    ELSE IF key = KEY_END THEN <<str, Len(str)>>
    ELSE IF 32 <= key /\ key <= 126
    THEN <<InsertAt(str, pos, key), pos + 1>>
    ELSE <<str, pos>>

\* The elif chain after the Enter test: <<input_str, cursor_pos>> after key.
EditResult(key, str, pos) ==
    IF key \in {KEY_BACKSPACE, 127, 8}
    THEN IF pos > 0 THEN <<RemoveBefore(str, pos), pos - 1>> ELSE <<str, pos>>
    ELSE IF key = KEY_DC
    THEN IF pos < Len(str) THEN <<RemoveBefore(str, pos + 1), pos>>
         ELSE <<str, pos>>
    ELSE IF key = KEY_LEFT THEN <<str, IF pos > 0 THEN pos - 1 ELSE pos>>
    ELSE IF key = KEY_RIGHT
    THEN <<str, IF pos < Len(str) THEN pos + 1 ELSE pos>>
    ELSE IF key = KEY_HOME THEN <<str, 0>>
    ELSE IF key = KEY_END THEN <<str, Len(str)>>
    ELSE IF 32 <= key /\ key <= 126
    THEN IF Len(str) < MaxInputLen THEN <<InsertAt(str, pos, key), pos + 1>>
         ELSE <<str, pos>>
    ELSE <<str, pos>>

\* if not input_str and default_value: input_str = default_value
InputResult(str, default) ==
    IF str = <<>> /\ default # <<>> THEN default ELSE str

InitInput ==
    /\ FlowIdle
    /\ SmartIdle
    /\ BrowseIdle
    /\ MonitorIdle
    /\ DialogsIdle
    /\ pc = "idle"

\* The operator presses a key: the terminal delivers its code.
TermKey ==
    /\ term_out = <<>>
    /\ Len(inq) < MaxPending
    /\ \E k \in TypedKeys : inq' = Append(inq, InputCode(k, FALSE))
    /\ UNCHANGED <<pc, default_value, input_str, cursor_pos, input_return,
                   term_out>>
    /\ UNCHANGED <<flowVars, smartVars, browseVars, monitorVars, warnVars, menuVars, logVars>>

\* The pointer device acts: the terminal delivers the first code of the
\* report and keeps the rest to send.
TermMouse ==
    /\ term_out = <<>>
    /\ Len(inq) < MaxPending
    /\ \E r \in MouseReports :
        /\ inq' = Append(inq, InputCode(Head(r), TRUE))
        /\ term_out' = Tail(r)
    /\ UNCHANGED <<pc, default_value, input_str, cursor_pos, input_return>>
    /\ UNCHANGED <<flowVars, smartVars, browseVars, monitorVars, warnVars, menuVars, logVars>>

\* The next code of the report arrives.
TermSend ==
    /\ term_out # <<>>
    /\ Len(inq) < MaxPending
    /\ inq' = Append(inq, InputCode(Head(term_out), TRUE))
    /\ term_out' = Tail(term_out)
    /\ UNCHANGED <<pc, default_value, input_str, cursor_pos, input_return>>
    /\ UNCHANGED <<flowVars, smartVars, browseVars, monitorVars, warnVars, menuVars, logVars>>

\* get_input_string is called: flushinp() discards the pending input.
InputOpen ==
    /\ pc = "idle"
    /\ default_value' \in DefaultValues
    /\ input_str' = <<>>
    /\ cursor_pos' = 0
    /\ input_return' = <<>>
    /\ inq' = <<>>
    /\ pc' = "getch"
    /\ UNCHANGED term_out
    /\ UNCHANGED <<flowVars, smartVars, browseVars, monitorVars, warnVars, menuVars, logVars>>

\* The loop is left: default substitution and return.
InputReturns(str) ==
    /\ input_str' = InputResult(str, default_value)
    /\ input_return' = <<input_str'>>
    /\ pc' = "idle"
    /\ UNCHANGED <<cursor_pos, default_value>>

\* key = win.getch() in blocking mode, and the handling of the key.
InputGetch ==
    /\ pc = "getch"
    /\ inq # <<>>
    /\ inq' = Tail(inq)
    /\ LET key == Head(inq).code IN
        IF key = KEY_MOUSE \/ (key > 255 /\ key \notin EditKeys)
        THEN UNCHANGED <<pc, default_value, input_str, cursor_pos, input_return>>
        ELSE IF key = 27
        THEN /\ pc' = "esc_next"
             /\ UNCHANGED <<default_value, input_str, cursor_pos, input_return>>
        ELSE IF key \in {10, 13, KEY_ENTER}
        THEN InputReturns(input_str)
        ELSE /\ input_str' = EditResult(key, input_str, cursor_pos)[1]
             /\ cursor_pos' = EditResult(key, input_str, cursor_pos)[2]
             /\ UNCHANGED <<pc, default_value, input_return>>
    /\ UNCHANGED term_out
    /\ UNCHANGED <<flowVars, smartVars, browseVars, monitorVars, warnVars, menuVars, logVars>>

\* next_key = win.getch() without delay, after Esc.
InputEscNext ==
    /\ pc = "esc_next"
    /\ IF inq = <<>>
       THEN /\ InputReturns(<<>>)
            /\ UNCHANGED inq
       ELSE /\ inq' = Tail(inq)
            /\ pc' = IF Head(inq).code \in {91, 79} THEN "esc_consume" ELSE "getch"
            /\ UNCHANGED <<default_value, input_str, cursor_pos, input_return>>
    /\ UNCHANGED term_out
    /\ UNCHANGED <<flowVars, smartVars, browseVars, monitorVars, warnVars, menuVars, logVars>>

\* ch = win.getch() without delay, in the loop consuming the sequence.
InputEscConsume ==
    /\ pc = "esc_consume"
    /\ IF inq = <<>>
       THEN /\ pc' = "getch"
            /\ UNCHANGED inq
       ELSE /\ inq' = Tail(inq)
            /\ pc' = IF 64 <= Head(inq).code /\ Head(inq).code <= 126
                     THEN "getch" ELSE "esc_consume"
    /\ UNCHANGED <<default_value, input_str, cursor_pos, input_return, term_out>>
    /\ UNCHANGED <<flowVars, smartVars, browseVars, monitorVars, warnVars, menuVars, logVars>>

NextInput ==
    \/ TermKey
    \/ TermMouse
    \/ TermSend
    \/ InputOpen
    \/ InputGetch
    \/ InputEscNext
    \/ InputEscConsume

SpecInput == InitInput /\ [][NextInput]_vars

\* ------------------------------------------------------ operation flows
\* An operation flow is the sequence of dialogs and checks its function
\* runs before it calls run_dd_with_progress.  One step of a flow:
\*   menu   get_menu_choice (also inside get_block_size_choice and
\*          get_compression_choice); -1 makes the flow return
\*   gate   show_confirmation whose False makes the flow return
\*   ask    show_confirmation whose answer only selects how to go on
\*   check  a test of the environment or of typed text that makes the flow
\*          return when it fails (no device, bad directory, unmount
\*          failed, empty host name, SSH or NFS not reachable, ...)
\*   final  show_final_warning
\*   launch run_dd_with_progress
\* cond: the step is run only in some environments (device mounted, SMART
\* failed, checksum file found, ...).
Menu == [kind |-> "menu", cond |-> FALSE]
Gate == [kind |-> "gate", cond |-> FALSE]
GateIf == [kind |-> "gate", cond |-> TRUE]
Ask == [kind |-> "ask", cond |-> FALSE]
AskIf == [kind |-> "ask", cond |-> TRUE]
Check == [kind |-> "check", cond |-> FALSE]
Final == [kind |-> "final", cond |-> FALSE]
Launch == [kind |-> "launch", cond |-> FALSE]

\* if is_mounted: if show_confirmation(... "unmount all partitions now?"):
\* unmount, return unless it succeeded; else: return
UnmountSteps == <<GateIf, Check>>

\* show_smart_results: "Continue Despite SMART Failure?" after a failure.
SmartSteps == <<GateIf>>

\* Mutant of OperationTail: the operation starts after the confirmation.
OperationTailNoWarning == <<Gate, Launch>>

\* if show_confirmation("Confirm ... Operation"): if show_final_warning(...):
\* run_dd_with_progress(...)
OperationTail == <<Gate, Final, Launch>>

\* Device list, device menu, unmount and SMART steps opening a flow.
DeviceSteps == <<Check, Menu>> \o UnmountSteps \o SmartSteps

CloneSteps ==
    DeviceSteps \o <<Menu, Check>> \o UnmountSteps \o SmartSteps
        \o <<Menu>> \o OperationTail

\* compression menu, block-size menu, output directory, low disk space
BackupSteps ==
    DeviceSteps \o <<Menu, Menu, Check, GateIf>> \o OperationTail

\* image directory and list, image menu, "Verify Before Restore?",
\* "Continue Anyway?", then the target device and block size
RestoreSteps ==
    <<Check, Check, Menu, AskIf, GateIf>> \o DeviceSteps \o <<Menu>>
        \o OperationTail

\* host, user, connection test, "Browse remote directories?", directory,
\* compression menu
NetBackupSshSteps ==
    DeviceSteps \o <<Check, Check, Check, Ask, Check, Menu>> \o OperationTail

\* NFS path, reachability, mount, compression menu
NetBackupNfsSteps ==
    DeviceSteps \o <<Check, Check, Check, Menu>> \o OperationTail

\* host, user, connection test, "Browse remote files?", file, "Is the
\* remote file gzip compressed?"
NetRestoreSshSteps ==
    DeviceSteps \o <<Check, Check, Check, Ask, Check, AskIf>> \o OperationTail

\* NFS path, reachability, mount, image list, image menu
NetRestoreNfsSteps ==
    DeviceSteps \o <<Check, Check, Check, Check, Menu>> \o OperationTail

\* device list and menu, unmount, block-size menu, accessibility check,
\* algorithm menu and its validity, final warning, then the passes
WipeSteps ==
    <<Check, Menu>> \o UnmountSteps \o <<Menu, Check, Menu, Check, Final, Launch>>

FlowNames ==
    {"clone_logic", "backup_logic", "restore_logic", "wipe_disk_logic",
     "network_backup_ssh", "network_backup_nfs", "network_restore_ssh",
     "network_restore_nfs", "network_backup_logic", "network_restore_logic"}

\* network_backup_logic and network_restore_logic put a protocol menu in
\* front of the same steps (here on their SSH route).
FlowSteps(f) ==
    CASE f = "clone_logic" -> CloneSteps
      [] f = "backup_logic" -> BackupSteps
      [] f = "restore_logic" -> RestoreSteps
      [] f = "wipe_disk_logic" -> WipeSteps
      [] f = "network_backup_ssh" -> NetBackupSshSteps
      [] f = "network_backup_nfs" -> NetBackupNfsSteps
      [] f = "network_restore_ssh" -> NetRestoreSshSteps
      [] f = "network_restore_nfs" -> NetRestoreNfsSteps
      [] f = "network_backup_logic" -> <<Menu>> \o NetBackupSshSteps
      [] f = "network_restore_logic" -> <<Menu>> \o NetRestoreSshSteps

\* Largest number of passes of a wipe (the algorithms have 1 to 35).
MaxPasses == 2

\* What the operator types at the final warning.
FlowTyped ==
    {<<>>, <<"x">>, <<"Y", "E", "S">>, <<"y", "e", "s", " ">>, <<"Y", "E">>}

\* The step the flow is at.
CurrentStep == FlowSteps(flow)[flow_step]

InitFlow ==
    /\ SmartIdle
    /\ BrowseIdle
    /\ MonitorIdle
    /\ DialogsIdle
    /\ pc = "flow"
    /\ flow \in FlowNames
    /\ flow_step = 1
    /\ flow_answer = "none"
    /\ launched = 0
    /\ run_results = <<>>

\* The flow goes on to its next step, or returns.
FlowGoesOn == flow_step' = flow_step + 1 /\ UNCHANGED pc
FlowReturns == pc' = "returned" /\ UNCHANGED flow_step

\* A menu closes: -1 returns, a choice goes on.
FlowMenu ==
    /\ pc = "flow"
    /\ CurrentStep.kind = "menu"
    /\ \E a \in {"cancel", "choice"} :
        /\ flow_answer' = a
        /\ IF a = "cancel" THEN FlowReturns ELSE FlowGoesOn
    /\ UNCHANGED <<smartVars, browseVars, flow, launched, run_results, monitorVars, warnVars, menuVars, logVars,
                   inputVars>>

\* A confirmation whose False ends the flow.
FlowGate ==
    /\ pc = "flow"
    /\ CurrentStep.kind = "gate"
    /\ \E a \in {"yes", "no"} :
        /\ flow_answer' = a
        /\ IF a = "no" THEN FlowReturns ELSE FlowGoesOn
    /\ UNCHANGED <<smartVars, browseVars, flow, launched, run_results, monitorVars, warnVars, menuVars, logVars,
                   inputVars>>

\* A confirmation whose answer selects a branch; both branches go on.
FlowAsk ==
    /\ pc = "flow"
    /\ CurrentStep.kind = "ask"
    /\ \E a \in {"yes", "no"} : flow_answer' = a
    /\ FlowGoesOn
    /\ UNCHANGED <<smartVars, browseVars, flow, launched, run_results, monitorVars, warnVars, menuVars, logVars,
                   inputVars>>

\* The condition of a conditional dialog does not hold: it is not shown.
FlowSkip ==
    /\ pc = "flow"
    /\ CurrentStep.cond
    /\ flow_answer' = "skipped"
    /\ FlowGoesOn
    /\ UNCHANGED <<smartVars, browseVars, flow, launched, run_results, monitorVars, warnVars, menuVars, logVars,
                   inputVars>>

\* A check passes or fails.
FlowCheck ==
    /\ pc = "flow"
    /\ CurrentStep.kind = "check"
    /\ \E a \in {"ok", "failed"} :
        /\ flow_answer' = a
        /\ IF a = "failed" THEN FlowReturns ELSE FlowGoesOn
    /\ UNCHANGED <<smartVars, browseVars, flow, launched, run_results, monitorVars, warnVars, menuVars, logVars,
                   inputVars>>

\* show_final_warning with some typed input.
FlowFinal ==
    /\ pc = "flow"
    /\ CurrentStep.kind = "final"
    /\ \E bytes \in FlowTyped :
        /\ typed' = bytes
        /\ user_input' = ReadUserInput(bytes)
        /\ warn_return' = <<FinalWarningResult(user_input')>>
    /\ flow_answer' = IF warn_return'[1] THEN "yes" ELSE "no"
    /\ IF warn_return'[1] THEN FlowGoesOn ELSE FlowReturns
    /\ UNCHANGED <<smartVars, browseVars, flow, launched, run_results, monitorVars, menuVars, logVars, inputVars>>

\* The flow calls run_dd_with_progress: the call is synchronous, so the flow
\* stays inside it until it returns.
FlowLaunch ==
    /\ pc = "flow"
    /\ CurrentStep.kind = "launch"
    /\ launched' = launched + 1
    /\ pc' = "in_run"
    /\ UNCHANGED <<smartVars, browseVars, flow, flow_step, flow_answer, run_results, monitorVars,
                   warnVars, menuVars, logVars, inputVars>>

\* run_dd_with_progress returns what Succeeded makes of the child's exit
\* code and output.  A wipe discards the value and goes to its next pass,
\* or, after the last pass, to its "Success" message box; every other flow
\* returns.  What the run leaves on stderr that matters to its return value
\* is nothing, or the disk-full line a wipe to the end of the device ends
\* with.
FlowRunEnds ==
    /\ pc = "in_run"
    /\ \E rc \in ExitCodes, lines \in {<<>>, <<Line(FALSE, -1, TRUE)>>} :
        /\ returncode' = rc
        /\ stderr_lines' = lines
        /\ operation_succeeded' = Succeeded(rc, lines)
    /\ run_results' = Append(run_results, operation_succeeded')
    /\ flow_answer' = "run"
    /\ \E more \in BOOLEAN :
        /\ more => flow = "wipe_disk_logic" /\ launched < MaxPasses
        /\ pc' = IF flow # "wipe_disk_logic" THEN "returned"
                 ELSE IF more THEN "flow" ELSE "success_box"
    /\ UNCHANGED <<smartVars, browseVars, flow, flow_step, launched, child, pipe, total_size_bytes,
                   current_mode, first_draw, last_bytes_copied,
                   last_percentage, error_ranges, last_error_position,
                   prog_win, block_win, map_width, map_height, samples,
                   warnVars, menuVars, logVars, inputVars>>

\* The operator closes the wipe's "Success" message box and the flow returns.
FlowBoxClosed ==
    /\ pc = "success_box"
    /\ pc' = "returned"
    /\ UNCHANGED <<flowVars, smartVars, browseVars, monitorVars, warnVars, menuVars, logVars,
                   inputVars>>

NextFlow ==
    \/ FlowMenu
    \/ FlowGate
    \/ FlowAsk
    \/ FlowSkip
    \/ FlowCheck
    \/ FlowFinal
    \/ FlowLaunch
    \/ FlowRunEnds
    \/ FlowBoxClosed

SpecFlow == InitFlow /\ [][NextFlow]_vars

\* ------------------------------------------------------- the SMART viewer
\* Largest number of lines smartctl prints in the model.
MaxSmartOutput == 5

\* What fetch_smartctl_data returns: (None, error) or (stdout, None), the
\* output reduced to its number of lines.
FetchResults ==
    {[error |-> TRUE, out |-> 0]}
    \cup {[error |-> FALSE, out |-> n] : n \in 1..MaxSmartOutput}

\* format_smartctl_lines: seven header lines, the output, three footer
\* lines; the header names the flag.
FormatLines(out, flag) == [flag |-> flag, len |-> 7 + out + 3]

\* What getmouse reports: wheel up, wheel down, another button, an error.
SmartMouse == {"BUTTON4_PRESSED", "BUTTON5_PRESSED", "BUTTON1_CLICKED", "error"}

\* Mutant of ToggleResult: the flag is not put back after a failed fetch.
ToggleResultNoRevert(ext, lines, pos, maxs, vis, fetched) ==
    IF fetched.error THEN <<~ext, lines, pos, maxs>>
    ELSE LET new == FormatLines(fetched.out, IF ~ext THEN "-x" ELSE "-a")
         IN <<~ext, new, 0, Max(0, new.len - vis)>>

\* The t / T branch: <<use_extended, formatted_lines, scroll_pos,
\* max_scroll>> after the fetch for the other flag, which is
\* "-x" if use_extended else "-a".
ToggleResult(ext, lines, pos, maxs, vis, fetched) ==
    IF fetched.error THEN <<ext, lines, pos, maxs>>
    ELSE LET new == FormatLines(fetched.out, IF ~ext THEN "-x" ELSE "-a")
         IN <<~ext, new, 0, Max(0, new.len - vis)>>

InitSmart ==
    /\ FlowIdle
    /\ SmartIdle
    /\ BrowseIdle
    /\ MonitorIdle
    /\ DialogsIdle
    /\ pc = "idle"

\* show_smartctl_output is called: a failed first fetch returns after its
\* message box; otherwise the -a output is shown from its top.  app_h is
\* that of the smallest terminal main accepts (24 rows, less the log's 8) or
\* of a taller one.
SmartOpen ==
    /\ pc = "idle"
    /\ \E fetched \in FetchResults, app_h \in {16, 18} :
        IF fetched.error
        THEN UNCHANGED <<pc, smartVars>>
        ELSE LET lines == FormatLines(fetched.out, "-a")
                 content_height == Min(lines.len + 4, app_h - 4)
             IN /\ pc' = "smart"
                /\ use_extended' = FALSE
                /\ formatted_lines' = lines
                /\ smart_scroll_pos' = 0
                /\ visible_lines' = content_height - 4
                /\ max_scroll' = Max(0, lines.len - (content_height - 4))
    /\ UNCHANGED <<browseVars, flowVars, monitorVars, warnVars, menuVars, logVars,
                   inputVars>>

\* One pass of the viewer's loop on a key, with what getmouse and the fetch
\* return if the key leads to them.
SmartKey(key, mouse, fetched) ==
    /\ pc = "smart"
    /\ IF key \in {116, 84}
       THEN LET r == ToggleResult(use_extended, formatted_lines,
                                  smart_scroll_pos, max_scroll,
                                  visible_lines, fetched)
            IN /\ use_extended' = r[1]
               /\ formatted_lines' = r[2]
               /\ smart_scroll_pos' = r[3]
               /\ max_scroll' = r[4]
               /\ UNCHANGED <<pc, visible_lines>>
       ELSE IF key \in {27, 113, 81}
       THEN /\ pc' = "idle"
            /\ UNCHANGED smartVars
       ELSE /\ smart_scroll_pos' =
                   LET pos == smart_scroll_pos
                       maxs == max_scroll
                       vis == visible_lines
                   IN IF key = KEY_UP /\ pos > 0 THEN pos - 1
                      ELSE IF key = KEY_DOWN /\ pos < maxs THEN pos + 1
                      ELSE IF key = KEY_PPAGE THEN Max(0, pos - vis)
                      ELSE IF key = KEY_NPAGE THEN Min(maxs, pos + vis)
                      ELSE IF key = KEY_HOME THEN 0
                      ELSE IF key = KEY_END THEN maxs
                      ELSE IF key = KEY_MOUSE /\ mouse = "BUTTON4_PRESSED"
                           THEN Max(0, pos - 3)
                      ELSE IF key = KEY_MOUSE /\ mouse = "BUTTON5_PRESSED"
                           THEN Min(maxs, pos + 3)
                      ELSE pos
            /\ UNCHANGED <<pc, use_extended, formatted_lines, max_scroll,
                           visible_lines>>
    /\ UNCHANGED <<browseVars, flowVars, monitorVars, warnVars, menuVars, logVars,
                   inputVars>>

\* The keys of the viewer: the scrolling keys, t and T, Esc q Q, the mouse
\* and a key with no meaning.
SpecSmart ==
    /\ InitSmart
    /\ [][\/ SmartOpen
          \/ \E key \in {KEY_UP, KEY_DOWN, KEY_PPAGE, KEY_NPAGE, KEY_HOME,
                          KEY_END, 116, 84, 27, 113, 81, KEY_MOUSE, 120},
                 mouse \in SmartMouse, fetched \in FetchResults :
                SmartKey(key, mouse, fetched)]_vars

\* ------------------------------------------- the remote directory browser
\* Deepest directory of the remote tree of the model.
MaxDepth == 2

\* if len(filtered_entries) > 100
MaxEntries == 100

\* The remote trees: one listing per depth (the listing of the directory at
\* path is tree[Len(path) + 1]), none below the deepest; a directory that
\* can be listed is one of the directories of its parent.  A listing is
\* what ssh_list_directory returns for a directory: an error, or entries of
\* which ndirs are directories and nfiles are files matching file_filter.
RemoteTrees ==
    {t \in [1..(MaxDepth + 1) ->
                [error : BOOLEAN, ndirs : {0, 1, MaxEntries + 1},
                 nfiles : {0, 1}]] :
        /\ t[MaxDepth + 1].ndirs = 0
        /\ \A d \in 2..(MaxDepth + 1) :
                ~t[d].error => (t[d - 1].error \/ t[d - 1].ndirs > 0)}

\* filtered_entries, by kind: the "<Select this directory>" entry of a
\* destination browser, ".." below the root, the directories, and the
\* matching files of a file browser.
FilteredEntries(path, listing, dirs_only) ==
    (IF dirs_only THEN <<"select">> ELSE <<>>)
    \o (IF path # <<>> THEN <<"parent">> ELSE <<>>)
    \o [i \in 1..listing.ndirs |-> "dir"]
    \o (IF dirs_only THEN <<>> ELSE [i \in 1..listing.nfiles |-> "file"])

\* What the operator can answer in one pass of the loop: a key at a message
\* box (-1), or Esc (-1) or an item of the menu.
BrowseChoices(path, listing, dirs_only) ==
    LET entries == FilteredEntries(path, listing, dirs_only)
    IN IF listing.error \/ entries = <<>> \/ Len(entries) > MaxEntries
       THEN {-1}
       ELSE -1..(Len(entries) - 1)

\* One pass of the loop of ssh_browse_directory: the function returns a
\* value (None, or a path), or goes on in a directory.  dirname is
\* os.path.dirname(current_path) or '/'.
BrowseStep(path, listing, dirs_only, choice) ==
    LET entries == FilteredEntries(path, listing, dirs_only)
        dirname == IF path = <<>> THEN <<>>
                   ELSE SubSeq(path, 1, Len(path) - 1)
        none == [none |-> TRUE, path |-> <<>>]
        some(p) == [none |-> FALSE, path |-> p]
        stays(p) == [returns |-> FALSE, path |-> p, value |-> none]
        returns(v) == [returns |-> TRUE, path |-> path, value |-> v]
    IN IF listing.error
       THEN IF path # <<>> THEN stays(dirname)
            ELSE returns(none)
       ELSE IF entries = <<>> \/ Len(entries) > MaxEntries
       THEN stays(dirname)
       ELSE IF choice = -1 THEN returns(none)
       ELSE IF entries[choice + 1] = "select" THEN returns(some(path))
       ELSE IF entries[choice + 1] = "parent" THEN stays(dirname)
       ELSE IF entries[choice + 1] = "dir" THEN stays(Append(path, "d"))
       ELSE returns(some(Append(path, "f")))

\* The callers browse from /home, for a directory or for an image file.
InitBrowse ==
    /\ FlowIdle
    /\ SmartIdle
    /\ MonitorIdle
    /\ DialogsIdle
    /\ pc = "browse"
    /\ current_path = <<"d">>
    /\ filter_dirs_only \in BOOLEAN
    /\ remote \in RemoteTrees
    /\ browse_return = <<>>

BrowsePass ==
    /\ pc = "browse"
    /\ \E choice \in BrowseChoices(current_path,
                                    remote[Len(current_path) + 1],
                                    filter_dirs_only) :
        LET r == BrowseStep(current_path, remote[Len(current_path) + 1],
                            filter_dirs_only, choice)
        IN /\ current_path' = r.path
           /\ pc' = IF r.returns THEN "returned" ELSE "browse"
           /\ browse_return' = IF r.returns THEN <<r.value>> ELSE <<>>
    /\ UNCHANGED <<filter_dirs_only, remote>>
    /\ UNCHANGED <<flowVars, smartVars, monitorVars, warnVars, menuVars,
                   logVars, inputVars>>

SpecBrowse == InitBrowse /\ [][BrowsePass]_vars

\* ================================================================= claims
\* ------------------------------------------------------------- helpers
Last(q) == q[Len(q)]
ActiveWin == IF current_mode = "progress" THEN prog_win ELSE block_win
NoSpaceSeen == \E i \in DOMAIN stderr_lines : stderr_lines[i].nospace
ErrorLineSeen == \E i \in DOMAIN stderr_lines : stderr_lines[i].err
RatEq(p, q) == p[1] * q[2] = q[1] * p[2]

\* The byte counts of the progress lines of a sequence of lines, in order.
RECURSIVE ProgressBytes(_)
ProgressBytes(lines) ==
    IF lines = <<>> THEN <<>>
    ELSE IF Head(lines).bytes = -1 THEN ProgressBytes(Tail(lines))
    ELSE <<Head(lines).bytes>> \o ProgressBytes(Tail(lines))

OnlyProgressLines(lines) ==
    \A i \in DOMAIN lines : lines[i].bytes # -1 /\ ~lines[i].err

SampleBytes == [i \in DOMAIN samples |-> samples[i].bytes]

\* An error line without a byte count was read after the last line that
\* carried one.
ErrorPendingIn(lines) ==
    \E i \in DOMAIN lines :
        /\ lines[i].err
        /\ \A j \in i..Len(lines) : lines[j].bytes = -1

\* C1: once the run has decided its outcome, success is reported exactly
\* when the exit code is 0, or it is 1 and the collected diagnostic text
\* holds "No space left on device"; any other exit code is a failure.
C1_SuccessPolicy ==
    pc \in {"anykey", "done"} =>
        /\ returncode = 0 => operation_succeeded
        /\ returncode = 1 => (operation_succeeded <=> NoSpaceSeen)
        /\ returncode \notin {0, 1} => ~operation_succeeded

C1_Witness ==
    /\ pc = "done"
    /\ returncode = 1
    /\ NoSpaceSeen
    /\ operation_succeeded

\* C2: every sample's percentage is min(100, 100*bytesCopied/total) when
\* total > 0 and 0 when total = 0, hence always within [0, 100].
C2_PercentageClamped ==
    \A i \in DOMAIN samples :
        LET b == samples[i].bytes
            p == samples[i].pct
        IN /\ p[2] > 0
           /\ total_size_bytes = 0 => p[1] = 0
           /\ (total_size_bytes > 0 /\ b <= total_size_bytes)
                => p[1] * total_size_bytes = 100 * b * p[2]
           /\ (total_size_bytes > 0 /\ b > total_size_bytes)
                => p[1] = 100 * p[2]
           /\ 0 <= p[1] /\ p[1] <= 100 * p[2]

C2_Witness ==
    \E i \in DOMAIN samples :
        /\ total_size_bytes > 0
        /\ samples[i].bytes > total_size_bytes
        /\ RatEq(samples[i].pct, <<100, 1>>)

\* C3: right after the key poll of an iteration (where a toggle is
\* processed), the window of the active renderer exists and shows the last
\* computed sample.
C3_ToggleRedrawsLastSample ==
    (pc = "read" /\ samples # <<>>) =>
        /\ ActiveWin.exists
        /\ ActiveWin.bytes = Last(samples).bytes
        /\ ActiveWin.pct = Last(samples).pct

\* C4: every step leaves the recorded error ranges in place and at most
\* appends one range at the end.
C4_RangesAppendOnly ==
    [][/\ Len(error_ranges') \in {Len(error_ranges), Len(error_ranges) + 1}
       /\ SubSeq(error_ranges', 1, Len(error_ranges)) = error_ranges]_vars

C4_Witness ==
    /\ Len(error_ranges) = 2
    /\ error_ranges[1] # error_ranges[2]

\* C5: a progress line reporting P that follows an error line seen at byte
\* count B appends exactly the range (B, P) and clears the pending marker;
\* a progress line with no error line since the previous one appends nothing,
\* and a line without a byte count (a repeated error line included) appends
\* nothing.
C5_OneRangePerError ==
    [][(pc = "read" /\ pipe # <<>> /\ pc' = "top") =>
        LET line == Head(pipe) IN
        IF line.bytes = -1
        THEN error_ranges' = error_ranges
        ELSE IF line.err THEN TRUE
        ELSE IF ErrorPendingIn(stderr_lines)
        THEN /\ error_ranges' =
                    Append(error_ranges, <<last_bytes_copied, line.bytes>>)
             /\ last_error_position' = 0
        ELSE error_ranges' = error_ranges]_vars

\* C8: when the child wrote progress lines only (at least one) and exited
\* with code 0, whatever the interleaving of its writes and exit with the
\* monitor's reads, the monitor has computed one sample per progress line
\* written, in order, the range list is empty and the final success screen
\* is shown.
C8_AllSamplesThenSuccess ==
    [][(pc = "top" /\ pc' \in {"anykey", "done"} /\ returncode = 0
            /\ stderr_lines' # <<>> /\ OnlyProgressLines(stderr_lines')) =>
        /\ SampleBytes' = ProgressBytes(stderr_lines')
        /\ \A i \in DOMAIN samples :
               samples[i].pct = Percentage(samples[i].bytes, total_size_bytes)
        /\ error_ranges' = <<>>
        /\ pc' = "anykey"
        /\ ActiveWin'.final = "success"]_vars

\* Two half-open byte intervals [a1, a2) and [b1, b2) share a byte.
HalfOpenIntersect(a1, a2, b1, b2) ==
    (IF a1 >= b1 THEN a1 ELSE b1) < (IF a2 <= b2 THEN a2 ELSE b2)

CellStart(k) ==
    CharStartByte(k - 1, total_size_bytes, TotalChars(map_width, map_height))
CellEnd(k) ==
    CharEndByte(k - 1, total_size_bytes, TotalChars(map_width, map_height))

\* C6: in a drawn block map a cell is an error cell exactly when its
\* half-open byte interval intersects some recorded half-open error range.
C6_ErrorCellIffIntersects ==
    block_win.exists =>
        \A k \in DOMAIN block_win.cells :
            (block_win.cells[k] = "X") <=>
                \E i \in DOMAIN error_ranges :
                    HalfOpenIntersect(CellStart(k), CellEnd(k),
                                      error_ranges[i][1], error_ranges[i][2])

\* C7: when the list holds a range spanning the whole device, every cell of
\* the drawn block map is an error cell, whatever the percentage.
C7_WholeDeviceAllCells ==
    (block_win.exists /\ \E i \in DOMAIN error_ranges :
                            error_ranges[i] = <<0, total_size_bytes>>) =>
        \A k \in DOMAIN block_win.cells : block_win.cells[k] = "X"

C7_Witness ==
    /\ block_win.exists
    /\ error_ranges = <<<<0, total_size_bytes>>>>
    /\ total_size_bytes > 0
    /\ last_bytes_copied < total_size_bytes
    /\ Len(block_win.cells) = MaxMapWidth * MaxMapHeight
    /\ \A k \in DOMAIN block_win.cells : block_win.cells[k] = "X"

\* The typed bytes are the token YES in any mix of cases.
IsYesToken(str) ==
    /\ Len(str) = 3
    /\ str[1] \in {"Y", "y"}
    /\ str[2] \in {"E", "e"}
    /\ str[3] \in {"S", "s"}

\* The typed bytes are that token between leading and trailing blanks.
IsPaddedYesToken(str) ==
    \E i \in 1..Len(str) : \E j \in i..Len(str) :
        /\ IsYesToken(SubSeq(str, i, j))
        /\ \A k \in 1..(i - 1) : str[k] \in Whitespace
        /\ \A k \in (j + 1)..Len(str) : str[k] \in Whitespace

\* C9 (as claimed): show_final_warning returns true exactly when the typed
\* input is the token YES, compared case-insensitively; any extra character
\* makes it return false.
C9_ExactYesOnly ==
    warn_return # <<>> => (warn_return[1] <=> IsYesToken(typed))

\* C9 (amended): show_final_warning returns true exactly when the typed
\* input, with leading and trailing whitespace removed, is the token YES
\* compared case-insensitively.
C9_YesAfterStrip ==
    warn_return # <<>> => (warn_return[1] <=> IsPaddedYesToken(typed))

C9_Witness ==
    /\ warn_return = <<TRUE>>
    /\ typed = <<" ", "y", "E", "s">>

\* C10: in the Navigating state a digit key d with d <= n closes the menu
\* at once and returns d-1, whatever the current selection; a digit d > n
\* leaves the menu open with the selection unchanged.
C10_DigitJumpSelect ==
    [][(pc = "menu" /\ ~log_focused /\ menu_key' \in 49..57) =>
        LET d == menu_key' - 48 IN
        IF d <= menu_items
        THEN pc' = "idle" /\ menu_return' = <<d - 1>>
        ELSE /\ pc' = "menu" /\ menu_return' = <<>>
             /\ current_row' = current_row /\ log_focused' = log_focused]_vars

C10_Witness ==
    /\ pc = "idle"
    /\ menu_items = 5
    /\ menu_key = 51
    /\ current_row = 4
    /\ menu_return = <<2>>

\* ------------------------------------------------------ menu navigation
\* The mouse event of the step: a right click, a wheel-up or a wheel-down
\* event, as the menu tells them apart.
IsRightClick(key, ev) ==
    key = KEY_MOUSE /\ "B3_CLICKED" \in ev.buttons /\ "B1_CLICKED" \notin ev.buttons
IsWheelUp(key, ev) ==
    key = KEY_MOUSE /\ "B4_PRESSED" \in ev.buttons
    /\ ev.buttons \cap {"B1_CLICKED", "B3_CLICKED"} = {}
IsWheelDown(key, ev) ==
    key = KEY_MOUSE /\ "B5_PRESSED" \in ev.buttons
    /\ ev.buttons \cap {"B1_CLICKED", "B3_CLICKED", "B4_PRESSED"} = {}
Navigating == pc = "menu" /\ ~log_focused
LogFocused == pc = "menu" /\ log_focused
\* The bottom-anchored offset for a log of n lines.
BottomOffset(n) == IF n > LogWinHeight - 2 THEN n - (LogWinHeight - 2) ELSE 0

\* C11: in Navigating, Esc, q, Q and a right click close the menu with -1;
\* every other close returns an index in 0..n-1; -1 is returned otherwise
\* only for an empty item list.
C11_CancelSentinel ==
    [][/\ Navigating =>
            LET cancel == \/ menu_key' \in {27, 113, 81}
                          \/ IsRightClick(menu_key', menu_mouse')
            IN /\ cancel => (pc' = "idle" /\ menu_return' = <<-1>>)
               /\ (pc' = "idle" /\ ~cancel) =>
                     /\ Len(menu_return') = 1
                     /\ menu_return'[1] \in 0..(menu_items - 1)
       /\ (pc = "idle" /\ pc' = "idle" /\ menu_return' # menu_return)
            => (menu_items' = 0 /\ menu_return' = <<-1>>)]_vars

C11_Witness ==
    /\ pc = "idle"
    /\ menu_items = 3
    /\ current_row = 2
    /\ menu_key = KEY_MOUSE
    /\ menu_mouse.buttons = {"B3_CLICKED"}
    /\ menu_return = <<-1>>

\* The row the selection moves to on a key that leaves the menu open.
RowAfter(row, n, key, ev) ==
    IF key = KEY_UP \/ IsWheelUp(key, ev) THEN (IF row > 0 THEN row - 1 ELSE row)
    ELSE IF key = KEY_DOWN \/ IsWheelDown(key, ev)
    THEN (IF row < n - 1 THEN row + 1 ELSE row)
    ELSE row

\* C12: Enter in Navigating closes the menu and returns the current
\* selection, which starts at 0 and is changed only by the Up/Down and
\* wheel moves handled in Navigating, each clamped to the item bounds.
C12_EnterReturnsSelection ==
    [][/\ (pc = "idle" /\ pc' = "menu") => current_row' = 0
       /\ Navigating =>
            /\ menu_key' \in {KEY_ENTER, 10, 13} =>
                   (pc' = "idle" /\ menu_return' = <<current_row>>)
            /\ pc' = "menu" =>
                   current_row' = RowAfter(current_row, menu_items, menu_key',
                                           menu_mouse')
       /\ LogFocused => current_row' = current_row]_vars

C12_Witness ==
    /\ pc = "idle"
    /\ menu_items = 4
    /\ menu_key = 13
    /\ menu_return = <<2>>

\* C13: a menu opens in Navigating at index 0; the index stays within
\* 0..n-1; Up at 0 and Down at n-1 leave it unchanged and a wheel event
\* moves it by exactly one row unless it is at the bound.
C13_SelectionInBounds ==
    /\ [](pc = "menu" => (current_row >= 0 /\ current_row <= menu_items - 1))
    /\ [][/\ (pc = "idle" /\ pc' = "menu") =>
                (current_row' = 0 /\ log_focused' = FALSE)
          /\ (Navigating /\ menu_key' = KEY_UP /\ current_row = 0) =>
                (pc' = "menu" /\ current_row' = 0)
          /\ (Navigating /\ menu_key' = KEY_DOWN /\ current_row = menu_items - 1)
                => (pc' = "menu" /\ current_row' = current_row)
          /\ (Navigating /\ IsWheelUp(menu_key', menu_mouse')) =>
                /\ pc' = "menu"
                /\ current_row' = IF current_row = 0 THEN 0 ELSE current_row - 1
          /\ (Navigating /\ IsWheelDown(menu_key', menu_mouse')) =>
                /\ pc' = "menu"
                /\ current_row' = IF current_row = menu_items - 1
                                  THEN current_row ELSE current_row + 1]_vars

C13_Witness ==
    /\ Navigating
    /\ menu_items = 3
    /\ current_row = 2
    /\ menu_key = KEY_MOUSE
    /\ menu_mouse.buttons = {"B5_PRESSED"}

\* C14: Tab or Esc in LogFocused sets the log scroll offset to
\* max(0, totalLines - visibleLines), wherever scrolling had left it.
C14_TabResetsToBottom ==
    [][(LogFocused /\ menu_key' \in {9, 27}) =>
            scroll_pos' = BottomOffset(log_messages')]_vars

C14_Witness ==
    /\ Navigating
    /\ menu_key = 27
    /\ log_messages = 9
    /\ scroll_pos = 3

\* C15: the log scroll offset always satisfies
\* 0 <= scrollOffset <= max(0, length - visibleLines).
C15_ScrollClamped ==
    scroll_pos >= 0 /\ scroll_pos <= BottomOffset(log_messages)

C15_Witness ==
    /\ LogFocused
    /\ menu_key = KEY_NPAGE
    /\ log_messages = 8
    /\ scroll_pos = 2

\* C16: Tab in Navigating gives the focus to the log pane; in LogFocused
\* Tab and Esc give it back without closing the menu, and every other key
\* keeps the focus on the log pane, the menu open and the selection as is.
C16_FocusRouting ==
    [][/\ (Navigating /\ menu_key' = 9) =>
            (pc' = "menu" /\ log_focused' = TRUE /\ current_row' = current_row)
       /\ LogFocused =>
            /\ pc' = "menu"
            /\ menu_return' = menu_return
            /\ current_row' = current_row
            /\ log_focused' = (menu_key' \notin {9, 27})]_vars

C16_Witness ==
    /\ LogFocused
    /\ menu_key = 10
    /\ menu_items = 3
    /\ current_row = 2

\* -------------------------------------------------------- the text input
\* The dialog returns in this step.
InputCloses == pc \in {"getch", "esc_next"} /\ pc' = "idle"

\* C17: Enter returns the edit buffer, or the default when the buffer is
\* empty; a lone Esc returns the empty string, whatever the default.
C17_EnterSubmitsEscEmpty ==
    [][InputCloses =>
        IF pc = "getch"
        THEN input_return' = <<IF input_str = <<>> THEN default_value
                              ELSE input_str>>
        ELSE input_return' = << <<>> >>]_vars

\* The dialog reads a code that the pointer device produced.
ReadsMouseCode ==
    /\ pc \in {"getch", "esc_next", "esc_consume"}
    /\ inq # <<>>
    /\ inq' = Tail(inq)
    /\ Head(inq).mouse

\* C18: reading a mouse event, a byte of a mouse-report escape sequence or
\* a bare scroll key code changes neither the edit buffer nor the cursor.
C18_MouseInputLeavesBuffer ==
    [][ReadsMouseCode =>
        (input_str' = input_str /\ cursor_pos' = cursor_pos)]_vars

\* ------------------------------------------------- the end of a run
\* C19: run_dd_with_progress returns only after the final success/failure
\* screen was rendered in the window of the active renderer and a key was
\* awaited.
C19_ResultScreenAlwaysShown ==
    [][(pc # "done" /\ pc' = "done") =>
        /\ pc = "anykey"
        /\ ActiveWin.exists
        /\ ActiveWin.final \in {"success", "failed"}]_vars

C21_NoFaultPropagates == pc # "raised"

\* ------------------------------------------------------------------ C22
\* A toggle key is waiting in the keyboard queue.
TogglePending == \E i \in DOMAIN inq : inq[i] \in ToggleKeys

\* C22: the keyboard is polled before each attempt to read a line, so a
\* toggle key pressed during a run is processed (the mode flipped) after at
\* most one further diagnostic line, whatever keys were pressed before it.
\* A key waits at most one line exactly when every poll made while a toggle
\* key is pending flips the mode: a poll that does not is followed by a
\* blocking read, and the key waits for a second line.
C22_ToggleWithinOneLine ==
    [][(pc = "top" /\ pc' = "read" /\ TogglePending)
         => current_mode' # current_mode]_vars

\* ------------------------------------------------------------------ C23
\* The position of the event lies inside the menu's item rows.
InsideItemRows(ev) == ev.inx /\ ev.row \in 0..(menu_items - 1)
IsLeftClick(ev) == "B1_CLICKED" \in ev.buttons
\* Neither a click of the left or right button nor a wheel event.
IsOtherMouseEvent(ev) ==
    ev.buttons \cap {"B1_CLICKED", "B3_CLICKED", "B4_PRESSED", "B5_PRESSED"} = {}

\* C23: in the Navigating state a left click inside the item rows closes the
\* menu and returns the index of the clicked row; a left click outside the
\* item rows, and any mouse event that is neither a right click nor a wheel
\* event, leaves the menu open with its state unchanged.
C23_LeftClickSelects ==
    [][(Navigating /\ menu_key' = KEY_MOUSE) =>
        /\ (IsLeftClick(menu_mouse') /\ InsideItemRows(menu_mouse'))
              => /\ pc' = "idle"
                 /\ menu_return' = <<menu_mouse'.row>>
        /\ (\/ IsLeftClick(menu_mouse') /\ ~InsideItemRows(menu_mouse')
            \/ IsOtherMouseEvent(menu_mouse'))
              => /\ pc' = "menu"
                 /\ UNCHANGED <<menu_items, current_row, log_focused,
                                menu_return, logVars>>]_vars

\* A menu closed by a left click on its third row, the selection elsewhere.
C23_Witness ==
    /\ pc = "idle"
    /\ menu_key = KEY_MOUSE
    /\ IsLeftClick(menu_mouse)
    /\ InsideItemRows(menu_mouse)
    /\ menu_mouse.row = 2
    /\ current_row = 0
    /\ menu_return = <<2>>

\* ------------------------------------------------------------------ C24
\* C24: opening and closing the help overlay (F1 or '?') or the about
\* overlay (F12) from a menu returns to the same Navigating state: the menu
\* stays open, the focus stays on the dialog, the selection is unchanged.
C24_OverlayKeepsNavigating ==
    [][(Navigating /\ menu_key' \in {KEY_F1, 63, KEY_F12}) =>
        /\ pc' = "menu"
        /\ ~log_focused'
        /\ UNCHANGED <<menu_items, current_row, menu_return>>]_vars

\* Back in the menu after the about overlay, the selection on the third row.
C24_Witness ==
    /\ Navigating
    /\ menu_key = KEY_F12
    /\ current_row = 2
    /\ log_messages >= 3

\* ------------------------------------------------------------------ C26
\* floor(totalCells * percentage / 100) for the map last drawn.
FilledCells ==
    (TotalChars(map_width, map_height) * last_percentage[1])
        \div (last_percentage[2] * 100)

\* The byte range of cell k overlaps some ErrorRange (both half-open).
CellOverlapsError(k) ==
    \E i \in DOMAIN error_ranges :
        HalfOpenIntersect(CellStart(k), CellEnd(k),
                          error_ranges[i][1], error_ranges[i][2])

Decided == pc \in {"anykey", "done"}

\* C25: a diagnostic line matching the I/O-error pattern never ends the
\* monitor loop and never by itself makes the run fail: after reading it the
\* monitor is back at the loop head with the child untouched, the loop is
\* left only when the child has exited, and the outcome of a run that saw
\* such a line depends only on the exit code and the amnesty text.
C25_ErrorLineKeepsLoop ==
    /\ [][(pc = "read" /\ pipe # <<>> /\ Head(pipe).err
            /\ stderr_lines' # stderr_lines)
           => (pc' = "top" /\ UNCHANGED <<child, returncode>>)]_vars
    /\ [](Decided => child = "exited")
    /\ []((Decided /\ ErrorLineSeen) =>
            (operation_succeeded <=>
                (returncode = 0 \/ (returncode = 1 /\ NoSpaceSeen))))

\* A successful run whose first line was an I/O error, read in the loop
\* and followed by a rendered progress line.
C25_Witness ==
    /\ pc = "done"
    /\ returncode = 0
    /\ operation_succeeded
    /\ Len(stderr_lines) >= 2
    /\ stderr_lines[1].err
    /\ samples # <<>>
    /\ error_ranges = <<>>

\* ------------------------------------------------------------------ C27
\* The disk-full notice is among the given lines.
HasNoSpace(lines) == \E i \in DOMAIN lines : lines[i].nospace

\* C27: after the child exits the monitor drains the remaining buffered
\* text, and the success policy is evaluated over the lines read in the loop
\* together with the drained remainder: with exit code 1 the disk-full
\* notice is honoured wherever it was read.
C27_DrainThenDecide ==
    [][(pc = "top" /\ pc' \in {"anykey", "done"}) =>
        /\ pipe' = <<>>
        /\ stderr_lines' = stderr_lines \o pipe
        /\ operation_succeeded' <=>
              \/ returncode = 0
              \/ returncode = 1 /\ (HasNoSpace(stderr_lines) \/ HasNoSpace(pipe))]_vars

\* Exit code 1 and success, the notice found only in the drained text: the
\* progress line before it was never rendered, so both lines were drained.
C27_Witness ==
    /\ pc = "done"
    /\ returncode = 1
    /\ operation_succeeded
    /\ samples = <<>>
    /\ stderr_lines = <<Line(FALSE, 1, FALSE), Line(FALSE, -1, TRUE)>>

\* ------------------------------------------------------------------ C28
\* C28: processing a toggle key flips displayMode between progress and
\* blockmap and forces the next renderer call to be a first draw, and leaves
\* the ErrorRange list, the pending error marker, the last byte count and
\* percentage and the total size unchanged; displayMode changes in no other
\* step and has two values, so an even number of toggles restores it.
C28_ToggleFrame ==
    /\ [](current_mode \in {"progress", "blockmap"})
    /\ [][\A key \in {"v", "V"} : PollWithKey(key) =>
            /\ current_mode' # current_mode
            /\ first_draw'
            /\ UNCHANGED <<error_ranges, last_error_position,
                           last_bytes_copied, last_percentage,
                           total_size_bytes, stderr_lines, samples>>]_vars
    /\ [][current_mode' # current_mode =>
            (PollWithKey("v") \/ PollWithKey("V"))]_vars

\* Just after a toggle: the last sample was drawn in the other mode, an
\* error range is recorded and another error is pending.
C28_Witness ==
    /\ pc = "read"
    /\ first_draw
    /\ samples # <<>>
    /\ Last(samples).mode # current_mode
    /\ error_ranges # <<>>
    /\ last_error_position > 0

\* ------------------------------------------------------------------ C29
\* C29: at every point of a run at most one cached renderer window exists,
\* it belongs to the renderer of the current displayMode, and when
\* run_dd_with_progress has returned no cached renderer window remains.
C29_OneWindowOfCurrentMode ==
    /\ ~(prog_win.exists /\ block_win.exists)
    /\ prog_win.exists => current_mode = "progress"
    /\ block_win.exists => current_mode = "blockmap"
    /\ pc = "done" => (~prog_win.exists /\ ~block_win.exists)

\* A run that drew in both modes has returned, leaving no window.
C29_Witness ==
    /\ pc = "done"
    /\ \E i, j \in DOMAIN samples : samples[i].mode # samples[j].mode
    /\ ~prog_win.exists
    /\ ~block_win.exists

\* ------------------------------------------------------------------ C30
\* The flow is at a dialog of the given kind and the step closes it.
FlowAnswers(kind, answer) ==
    /\ pc = "flow"
    /\ CurrentStep.kind = kind
    /\ flow_answer' = answer

\* The flow returns at this step and has launched nothing.
ReturnsUnlaunched == pc' = "returned" /\ launched' = 0

\* The copy child process is launched only after show_final_warning has
\* returned true in this flow.
LaunchOnlyAfterWarning ==
    /\ [](launched > 0 => warn_return = <<TRUE>>)
    /\ [][launched' # launched => warn_return = <<TRUE>>]_vars

\* C30 as stated: in every operation flow the copy child process is
\* launched only after show_final_warning has returned true in that flow; a
\* cancelled menu (-1), a declined confirmation or a final warning that
\* returned false makes the flow return without launching a child process.
C30_AnyDeclineReturns ==
    /\ LaunchOnlyAfterWarning
    /\ [][(\/ FlowAnswers("menu", "cancel")
           \/ FlowAnswers("gate", "no")
           \/ FlowAnswers("ask", "no")
           \/ FlowAnswers("final", "no")) => ReturnsUnlaunched]_vars

\* C30, amended: the same, for the confirmations that guard the operation
\* (unmount, SMART failure, low disk space, continue after a failed
\* verification, the operation itself); a confirmation that only asks how
\* to go on never ends the flow, whatever the answer.
C30_GateDeclineReturns ==
    /\ LaunchOnlyAfterWarning
    /\ [][(\/ FlowAnswers("menu", "cancel")
           \/ FlowAnswers("gate", "no")
           \/ FlowAnswers("final", "no")) => ReturnsUnlaunched]_vars
    /\ [][(FlowAnswers("ask", "no") \/ FlowAnswers("ask", "yes"))
            => (pc' = "flow" /\ flow_step' = flow_step + 1)]_vars

\* A restore whose operator typed YES at the final warning has launched its
\* copy and returned.
C30_Witness ==
    /\ flow = "restore_logic"
    /\ pc = "returned"
    /\ launched = 1
    /\ typed = <<"Y", "E", "S">>
    /\ warn_return = <<TRUE>>

\* ------------------------------------------------------------------ C31
\* C31: whenever an I/O-error line is followed later in the run by a
\* progress line, an ErrorRange starting at the byte count last observed
\* before the error is appended, also when that byte count is 0 (the error
\* comes before the first progress line or after a line reporting 0 bytes).
C31_RangeForEveryError ==
    [][(pc = "read" /\ pipe # <<>> /\ pc' = "top"
            /\ Head(pipe).bytes # -1 /\ ~Head(pipe).err
            /\ ErrorPendingIn(stderr_lines)) =>
        /\ Len(error_ranges') = Len(error_ranges) + 1
        /\ Last(error_ranges')[1] = last_bytes_copied]_vars

\* ------------------------------------------------------------------ C32
\* C32: every ErrorRange (start, end) recorded during a run satisfies
\* start <= end, for every sequence of progress and error lines, including
\* sequences in which a reported byte count is lower than the previous one.
C32_RangesOrdered ==
    \A i \in DOMAIN error_ranges : error_ranges[i][1] <= error_ranges[i][2]


\* C33: the passes of a wipe run strictly one after another (a pass's child
\* is launched only after every earlier pass's run has returned), and the
\* "has been securely wiped" success message is shown only if every pass's
\* run returned success.
C33_WipeSuccessOnlyIfAllPassed ==
    /\ [][launched' = launched + 1 => Len(run_results) = launched]_vars
    /\ [](pc = "success_box" =>
            \A i \in DOMAIN run_results : run_results[i])

\* C36: whenever a menu enters LogFocused, the stored scroll offset equals
\* the bottom-anchored offset max(0, totalLines - visibleLines) of the view
\* on display, on the first entry after start-up and after log lines were
\* appended since the last return to Navigating.
C36_FocusStartsAtBottom ==
    [][(pc = "menu" /\ ~log_focused /\ log_focused') =>
        scroll_pos' = BottomOffset(log_messages')]_vars

\* The newest VisibleLines messages of a log of n, bottom-anchored: the pane
\* starts at message max(0, n - VisibleLines) + 1.
NewestView(n) ==
    [i \in 1..VisibleLines |->
        IF BottomOffset(n) + i <= n THEN BottomOffset(n) + i ELSE 0]

\* C35: log messages are append-only and ordered, and right after every
\* append (no surface being LogFocused) the log pane shows the newest
\* visibleLines messages, bottom-anchored, for any number of messages, more
\* than the pad's 1000 rows included; the view emit paints is the one
\* refresh_log_window paints.
C35_EmitShowsNewest ==
    [][/\ log_messages' >= log_messages
       /\ log_messages' = log_messages + 1 =>
            /\ log_view' = NewestView(log_messages')
            /\ log_view' = PadRefresh(BottomScroll(log_messages'),
                                      log_messages', log_view')]_vars

\* The text-input dialog is open: its loop is reading keys.
DialogOpen == pc \in {"getch", "esc_next", "esc_consume"}

\* The cursor is inside the buffer, the buffer is no longer than max_len and
\* holds printable characters only.
BufferWellFormed ==
    /\ 0 <= cursor_pos
    /\ cursor_pos <= Len(input_str)
    /\ Len(input_str) <= MaxInputLen
    /\ \A i \in DOMAIN input_str : 32 <= input_str[i] /\ input_str[i] <= 126

\* The dialog reads a key that has nothing to act on: Backspace or Left at
\* position 0, Delete or Right at the end of the buffer.
ReadsEdgeKey ==
    /\ pc = "getch"
    /\ inq # <<>>
    /\ LET key == Head(inq).code IN
        \/ key \in {KEY_BACKSPACE, 127, 8, KEY_LEFT} /\ cursor_pos = 0
        \/ key \in {KEY_DC, KEY_RIGHT} /\ cursor_pos = Len(input_str)

C39_CellsTileDevice ==
    (block_win.exists /\ TotalChars(map_width, map_height) > 0) =>
        /\ CellStart(1) = 0
        /\ \A k \in 1..(TotalChars(map_width, map_height) - 1) :
                CellEnd(k) = CellStart(k + 1)
        /\ CellEnd(TotalChars(map_width, map_height)) = total_size_bytes

\* The viewer reads t or T and the fetch for the other flag fails.
ToggleFails ==
    \E key \in {116, 84}, mouse \in SmartMouse :
        SmartKey(key, mouse, [error |-> TRUE, out |-> 0])

\* The viewer reads t or T and the fetch returns n lines of output.
ToggleFetches(n) ==
    \E key \in {116, 84}, mouse \in SmartMouse :
        SmartKey(key, mouse, [error |-> FALSE, out |-> n])

\* C37: in the SMART viewer, t/T with a failed fetch for the other mode
\* leaves the mode flag, the displayed lines, the scroll position and the
\* scroll bound as they were; with a successful fetch the mode flag flips,
\* the lines are replaced by the other mode's and the scroll position is
\* back to 0; and 0 <= scroll_pos <= max_scroll at all times.
C37_ToggleKeepsOrReplaces ==
    /\ [](pc = "smart" =>
            0 <= smart_scroll_pos /\ smart_scroll_pos <= max_scroll)
    /\ [][ToggleFails =>
            UNCHANGED <<use_extended, formatted_lines, smart_scroll_pos,
                        max_scroll>>]_vars
    /\ [][\A n \in 1..MaxSmartOutput : ToggleFetches(n) =>
            /\ use_extended' = ~use_extended
            /\ formatted_lines' =
                   FormatLines(n, IF use_extended' THEN "-x" ELSE "-a")
            /\ formatted_lines' # formatted_lines
            /\ smart_scroll_pos' = 0]_vars

\* The extended view is on display, scrolled down, after a toggle.
C37_Witness ==
    /\ pc = "smart"
    /\ use_extended
    /\ formatted_lines.flag = "-x"
    /\ smart_scroll_pos > 0
    /\ smart_scroll_pos = max_scroll

\* Some sequence of at most n answers of the operator makes the browser
\* return from the directory at path.
RECURSIVE CanReturn(_, _)
CanReturn(path, n) ==
    /\ n > 0
    /\ \E choice \in BrowseChoices(path, remote[Len(path) + 1],
                                   filter_dirs_only) :
        LET r == BrowseStep(path, remote[Len(path) + 1], filter_dirs_only,
                            choice)
        IN r.returns \/ CanReturn(r.path, n - 1)

\* C34: from every state of ssh_browse_directory the operator can reach a
\* return of the function (a path or None) by some finite key sequence, the
\* root with an empty or an over-long filtered listing included.  The
\* browser has MaxDepth + 1 directories, so a return that can be reached is
\* reached within MaxDepth + 2 passes.
C34_ReturnReachable ==
    pc = "browse" => CanReturn(current_path, MaxDepth + 2)
====
